---- MODULE Spec2Model ----
(***************************************************************************)
(* Model of the multi-contact walking pattern generator of                  *)
(* examples/multi_contact_walking.py: the preview buffer (PreviewBuffer),   *)
(* the walking state machine (MultiContactWalkingFSM), the tube controller  *)
(* (COMTubePredictiveControl) and the tick loop that schedules them.        *)
(*                                                                          *)
(* Time is counted in integer units.  The state machine counts in base      *)
(* units; the preview buffer counts in units TimeScale times finer, so that *)
(* the step horizon / nb_mpc_steps of a plan is an integer.                 *)
(***************************************************************************)
EXTENDS Integers, Sequences, FiniteSets, TLC

\* ------------------------------------------------------------------ bounds

\* Largest number of preview steps of an update_preview issued directly.
MaxSteps == 2

\* Largest number of stances of a stance sequence.
MaxStances == 5

\* Largest duration of a stance, in base units.
MaxDuration == 3

\* Python's None, and a value that is not None: an optional is a sequence of
\* length 0 or 1.
None == <<>>

Some(x) == <<x>>

Min(a, b) == IF a <= b THEN a ELSE b

\* ------------------------------------------------------- program constants

\* COMTubePredictiveControl(nb_mpc_steps=...): the number of steps of a plan.
nb_mpc_steps == 2

\* Buffer time units per base time unit: horizons are sums of durations and of
\* half durations, divided by nb_mpc_steps.
TimeScale == 2 * nb_mpc_steps

\* The duration 0.1 of the default control, in base units of 0.05 s.
default_dT == 2

\* Dimensions of the control vectors of a buffer used on its own.
UDims == {1, 2}

\* The stacked controls handed to update_preview directly are told apart by a
\* tag, and their components by their position.
CtrlTags == {1, 2}

DurVals == {1, 5}

\* Simulation time steps sim.dt, in base units.
SimDts == {1, 2}

VARIABLES
    \* PreviewBuffer
    u_dim,          \* self.u_dim
    pb_U,           \* self._U: None or the stacked controls
    pb_dT,          \* self._dT: None or the durations
    cur_control,    \* self.cur_control: None or a control vector
    cur_index,      \* self.cur_index
    nb_steps,       \* self.nb_steps
    pb_rem_time,    \* self.rem_time, in buffer units
    switch_step,    \* self.switch_step: None or a step index
    dt,             \* sim.dt, in base units
    \* what the callers of the buffer observed
    last_ret,       \* the pair returned by get_next_control when it was the last call
    cb_control,     \* the control passed to the callback by the last on_tick
    fetched,        \* whether the last on_tick called get_next_control
    arg_U,          \* U of the last update_preview; None after a reset
    arg_dT,         \* dT of the last update_preview; None after a reset
    served,         \* calls of get_next_control since the last update_preview or reset
    prior,          \* the buffer's state when the last update_preview or reset was issued
    since_reset,    \* a reset was issued and no update_preview since
    \* MultiContactWalkingFSM
    stances,        \* self.stances
    cycle,          \* self.cycle
    cur_stance_id,  \* self.cur_stance_id
    cur_stance,     \* self.cur_stance: the position in stances of the stance it refers to
    rem_time,       \* self.rem_time, in base units
    is_over,        \* self.is_over
    swing_start,    \* self.swing_foot.start_pose
    swing_mid,      \* self.swing_foot.mid_pose
    swing_end,      \* self.swing_foot.end_pose
    swing_pose,     \* the pose of the swing foot body
    ik_left,        \* robot.ik.tasks[robot.left_foot.name]
    ik_right,       \* robot.ik.tasks[robot.right_foot.name]
    \* what the last tick of the state machine did
    branch,         \* the branch of on_tick it took
    can_switch,     \* the value of can_switch_to_ss() when it was evaluated, else None
    \* COMTubePredictiveControl and the tick loop
    turn,           \* the process whose on_tick the simulation calls next
    com,            \* self.com.p: the position of the point mass the controller steers
    preview_targets,\* preview_targets of the controller's last on_tick, else None
    control_call,   \* the last on_tick's call of compute_preview_control, else None
    target_com,     \* self.target_com.p: None or the COM target of a stance
    target_comd,    \* self.target_com.pd
    tube,           \* self.tube: None or the sub-phases and the stages computed
    preview_control,\* self.preview_control: None or its switch_step and timestep
    mpc_outcome,    \* how the controller's last on_tick ended
    raised,         \* an exception left the on_tick of a process
    \* a producer thread and a consumer thread on one buffer
    lock,           \* self.lock: "free" or the thread that holds it
    p_pc,           \* the producer's place in update_preview or reset
    p_step,         \* the assignment of the method's body the producer runs next
    p_call,         \* the producer's call: the method and its arguments
    c_pc,           \* the consumer's place in get_next_control or on_tick
    c_local,        \* the consumer's locals u and dT
    drawn,          \* what PreviewDrawer.on_tick last read from the buffer, else None
    \* InvertedPendulum
    ip_clamp,       \* self.clamp
    ip_lambda,      \* self.lambda_
    ip_lambda_min,  \* self.lambda_min: None or a stiffness
    ip_lambda_max,  \* self.lambda_max: None or a stiffness
    ip_call,        \* the arguments of the last set_lambda, else None
    \* what the ticks so far amount to
    dwell,          \* the ticks of the machine in its stance so far, or, right
                    \* after it moved on, in the stance it left: how many
                    \* counted down, and whether one held
    applied,        \* the duration of the control the buffer's on_tick fetched last
                    \* and the ticks that passed it to the callback since, and
                    \* the same of the control it replaced; None before the
                    \* first tick and after an update_preview or reset
    \* AvgStdEstimator
    est_last_value, \* self.last_value
    est_n,          \* self.n
    est_x,          \* self.x
    est_x2,         \* self.x2
    est_x_max,      \* self.x_max
    est_x_min,      \* self.x_min
    est_added       \* the values added since the last reset, in order

bufVars == <<u_dim, pb_U, pb_dT, cur_control, cur_index, nb_steps, pb_rem_time,
             switch_step, dt>>

obsVars == <<last_ret, cb_control, fetched, arg_U, arg_dT, served, prior, since_reset>>

fsmVars == <<stances, cycle, cur_stance_id, cur_stance, rem_time, is_over,
             swing_start, swing_mid, swing_end, swing_pose, ik_left, ik_right>>

fsmObs == <<branch, can_switch, dwell>>

mpcVars == <<turn, com, preview_targets, control_call, target_com, target_comd, tube,
             preview_control, mpc_outcome, raised>>

concVars == <<lock, p_pc, p_step, p_call, c_pc, c_local, drawn>>

pendVars == <<ip_clamp, ip_lambda, ip_lambda_min, ip_lambda_max, ip_call>>

estVars == <<est_last_value, est_n, est_x, est_x2, est_x_max, est_x_min, est_added>>

vars == <<bufVars, obsVars, fsmVars, fsmObs, mpcVars, concVars, pendVars, estVars,
          applied>>

\* ------------------------------------------------------------ PreviewBuffer

\* zeros(u_dim)
Zeros(d) == [i \in 1..d |-> 0]

\* self._default_control
default_control == <<Zeros(u_dim), default_dT * TimeScale>>

\* numpy's U[j:j + d]: the elements at the 0-based positions j..j+d-1 that exist
Slice(U, j, d) ==
    LET lo == Min(j, Len(U))
        hi == Min(j + d, Len(U))
    IN [i \in 1..(hi - lo) |-> U[lo + i]]

is_empty == pb_U = None

\* The controls get_next_control reads at the cursor.
next_u == Slice(pb_U[1], u_dim * cur_index, u_dim)

\* get_next_control leaves by neither of its two default returns.
has_next_but_last == ~is_empty /\ cur_index + 1 < Len(pb_dT[1])

has_next == ~is_empty /\ Len(next_u) # 0

get_next_control_result ==
    IF has_next THEN <<next_u, pb_dT[1][cur_index + 1]>> ELSE default_control

get_next_control_index == IF has_next THEN cur_index + 1 ELSE cur_index

\* The class of the buffer's state, as the callers distinguish it.
buffer_state ==
    IF is_empty THEN "empty"
    ELSE IF cur_index = 0 THEN "fresh"
    ELSE IF has_next THEN "partial"
    ELSE "exhausted"

\* One more call of get_next_control counted (the count saturates).
one_more_served == Min(served + 1, MaxSteps + nb_mpc_steps + 2)

update_preview_keeps_cursor(U, dT) ==
    /\ pb_U' = Some(U)
    /\ pb_dT' = Some(dT)
    /\ cur_index' = cur_index
    /\ nb_steps' = Len(dT)
    /\ pb_rem_time' = 0
    /\ switch_step' = None
    /\ UNCHANGED <<u_dim, cur_control, dt>>

update_preview(U, dT) ==
    /\ pb_U' = Some(U)
    /\ pb_dT' = Some(dT)
    /\ cur_index' = 0
    /\ nb_steps' = Len(dT)
    /\ pb_rem_time' = 0
    /\ switch_step' = None
    /\ UNCHANGED <<u_dim, cur_control, dt>>

reset_keeps_plan ==
    /\ cur_control' = None
    /\ cur_index' = 0
    /\ pb_rem_time' = 0
    /\ UNCHANGED <<pb_U, pb_dT, u_dim, nb_steps, switch_step, dt>>

reset ==
    /\ pb_U' = None
    /\ pb_dT' = None
    /\ cur_control' = None
    /\ cur_index' = 0
    /\ pb_rem_time' = 0
    /\ UNCHANGED <<u_dim, nb_steps, switch_step, dt>>

get_next_control_always_advancing ==
    /\ cur_index' = cur_index + 1
    /\ UNCHANGED <<u_dim, pb_U, pb_dT, cur_control, nb_steps, pb_rem_time,
                   switch_step, dt>>

get_next_control ==
    /\ cur_index' = get_next_control_index
    /\ UNCHANGED <<u_dim, pb_U, pb_dT, cur_control, nb_steps, pb_rem_time,
                   switch_step, dt>>

\* PreviewBuffer.on_tick with a callback set: cb_control is the control the
\* callback is called with.
PreviewBuffer_on_tick_always_fetching ==
    /\ cur_control' = Some(get_next_control_result[1])
    /\ cur_index' = get_next_control_index
    /\ pb_rem_time' = get_next_control_result[2] - dt * TimeScale
    /\ cb_control' = cur_control'
    /\ UNCHANGED <<u_dim, pb_U, pb_dT, nb_steps, switch_step, dt>>

PreviewBuffer_on_tick_carrying_remainder ==
    /\ IF pb_rem_time < dt * TimeScale
       THEN /\ cur_control' = Some(get_next_control_result[1])
            /\ cur_index' = get_next_control_index
            /\ pb_rem_time' = pb_rem_time + get_next_control_result[2]
                                - dt * TimeScale
       ELSE /\ pb_rem_time' = pb_rem_time - dt * TimeScale
            /\ UNCHANGED <<cur_control, cur_index>>
    /\ cb_control' = cur_control'
    /\ UNCHANGED <<u_dim, pb_U, pb_dT, nb_steps, switch_step, dt>>

PreviewBuffer_on_tick ==
    /\ IF pb_rem_time < dt * TimeScale
       THEN /\ cur_control' = Some(get_next_control_result[1])
            /\ cur_index' = get_next_control_index
            /\ pb_rem_time' = get_next_control_result[2] - dt * TimeScale
       ELSE /\ pb_rem_time' = pb_rem_time - dt * TimeScale
            /\ UNCHANGED <<cur_control, cur_index>>
    /\ cb_control' = cur_control'
    /\ UNCHANGED <<u_dim, pb_U, pb_dT, nb_steps, switch_step, dt>>

\* --------------------------------------------------- MultiContactWalkingFSM

\* The labels in the order generate_staircase appends the stances.
LabelCycle == << <<"DS", "R">>, <<"SS", "R">>, <<"DS", "L">>, <<"SS", "L">> >>

\* The stance generate_staircase appends at position p of its pattern: the
\* label, the duration of its kind, the contacts of its feet (None for the
\* foot an SS stance lacks) and its COM target, shared by DS-X and SS-X.
staircase_stance(p, ds_duration, ss_duration) ==
    LET label == LabelCycle[(p % 4) + 1]
    IN [label |-> label,
        duration |-> IF label[1] = "DS" THEN ds_duration ELSE ss_duration,
        left_foot |-> IF label = <<"SS", "R">> THEN None
                      ELSE Some(<<"left", (p + 2) \div 4>>),
        right_foot |-> IF label = <<"SS", "L">> THEN None
                       ELSE Some(<<"right", p \div 4>>),
        com |-> p \div 2]

\* n consecutive stances of the staircase, from position start of the pattern
generate_staircase(start, n, ds_duration, ss_duration) ==
    [i \in 1..n |-> staircase_stance(start + i - 1, ds_duration, ss_duration)]

nb_stances == Len(stances)

\* stances[i], i counted from 0 as in the source
StanceAt(i) == stances[i + 1]

\* The stance self.cur_stance refers to.
CurStance == StanceAt(cur_stance)

startswith_DS(stance) == stance.label[1] = "DS"

startswith_SS(stance) == stance.label[1] = "SS"

next_stance_id_always_wrapping ==
    IF cur_stance_id + 1 >= nb_stances THEN 0 ELSE cur_stance_id + 1

next_stance_id ==
    IF cur_stance_id + 1 >= nb_stances
    THEN (IF cycle THEN 0 ELSE cur_stance_id)
    ELSE cur_stance_id + 1

next_stance == StanceAt(next_stance_id)

next_next_stance_id_wrapped_once ==
    IF cur_stance_id + 2 >= nb_stances
    THEN (IF cycle THEN cur_stance_id + 2 - nb_stances ELSE nb_stances - 1)
    ELSE cur_stance_id + 2

next_next_stance_id ==
    IF cur_stance_id + 2 >= nb_stances
    THEN (IF cycle THEN (cur_stance_id + 2) % nb_stances ELSE nb_stances - 1)
    ELSE cur_stance_id + 2

next_next_stance == StanceAt(next_next_stance_id)

\* The pose of a contact is the contact's own: a pose is named by its contact.
pose_of(foot) == foot[1]

\* interpolate_pose_linear(start_pose, end_pose, .5), raised by swing_height
\* along the normal of the interpolated pose
mid_pose_of(start_pose, end_pose) == <<"mid", start_pose, end_pose>>

\* SwingFoot.reset
SwingFoot_reset(start_pose, end_pose) ==
    /\ swing_pose' = Some(<<start_pose, end_pose, 0, 1>>)
    /\ swing_start' = Some(start_pose)
    /\ swing_mid' = Some(mid_pose_of(start_pose, end_pose))
    /\ swing_end' = Some(end_pose)

\* SwingFoot.update_pose(s) with s = num / den: the pose at s on the path
\* start_pose, mid_pose, end_pose; nothing for s >= 1.
SwingFoot_update_pose(num, den) ==
    /\ swing_pose' = IF num >= den THEN swing_pose
                     ELSE Some(<<swing_start[1], swing_end[1], num, den>>)
    /\ UNCHANGED <<swing_start, swing_mid, swing_end>>

\* max(prev_lf_task.weight, prev_rf_task.weight): a contact task weighs more
\* than the swing weight 1e-1.
max_weight(a, b) == IF "contact" \in {a, b} THEN "contact" ELSE "swing"

update_robot_ik_feet_swapped(stance) ==
    LET contact_weight == max_weight(ik_left.weight, ik_right.weight)
    IN /\ ik_left' = IF stance.right_foot # None
                     THEN [kind |-> "ContactTask", target |-> stance.right_foot[1],
                           weight |-> contact_weight]
                     ELSE [kind |-> "PoseTask", target |-> "swing_foot",
                           weight |-> "swing"]
       /\ ik_right' = IF stance.left_foot # None
                      THEN [kind |-> "ContactTask", target |-> stance.left_foot[1],
                            weight |-> contact_weight]
                      ELSE [kind |-> "PoseTask", target |-> "swing_foot",
                            weight |-> "swing"]

\* update_robot_ik, with the stance the machine has just moved to
update_robot_ik(stance) ==
    LET contact_weight == max_weight(ik_left.weight, ik_right.weight)
    IN /\ ik_left' = IF stance.left_foot # None
                     THEN [kind |-> "ContactTask", target |-> stance.left_foot[1],
                           weight |-> contact_weight]
                     ELSE [kind |-> "PoseTask", target |-> "swing_foot",
                           weight |-> "swing"]
       /\ ik_right' = IF stance.right_foot # None
                      THEN [kind |-> "ContactTask", target |-> stance.right_foot[1],
                            weight |-> contact_weight]
                      ELSE [kind |-> "PoseTask", target |-> "swing_foot",
                            weight |-> "swing"]

\* on_tick's first test: time is left in the current stance
time_left_or_one_tick == rem_time > dt

time_left_or_none == rem_time >= 0

time_left == rem_time > 0

\* on_tick's second test, g the value of can_switch_to_ss(): evaluated only
\* for a double-support stance
must_hold_when_guard_passes(g) == startswith_DS(CurStance) /\ g

must_hold_regardless(g) == startswith_DS(CurStance)

must_hold(g) == startswith_DS(CurStance) /\ ~g

\* on_tick's third test
at_terminal_past_end == cur_stance_id = nb_stances /\ ~cycle

at_terminal == cur_stance_id = nb_stances - 1 /\ ~cycle

fsm_count_down_twice ==
    /\ IF startswith_SS(CurStance)
       THEN SwingFoot_update_pose(CurStance.duration - rem_time, CurStance.duration)
       ELSE UNCHANGED <<swing_start, swing_mid, swing_end, swing_pose>>
    /\ rem_time' = rem_time - 2 * dt
    /\ UNCHANGED <<stances, cycle, cur_stance_id, cur_stance, is_over, ik_left,
                   ik_right>>

\* The branch of on_tick taken when time is left.
fsm_count_down ==
    /\ IF startswith_SS(CurStance)
       THEN SwingFoot_update_pose(CurStance.duration - rem_time, CurStance.duration)
       ELSE UNCHANGED <<swing_start, swing_mid, swing_end, swing_pose>>
    /\ rem_time' = rem_time - dt
    /\ UNCHANGED <<stances, cycle, cur_stance_id, cur_stance, is_over, ik_left,
                   ik_right>>

\* The branch that moves to the next stance.
fsm_advance_frees_stance_foot ==
    LET cur == CurStance
        nn == next_next_stance
        new_id == (cur_stance_id + 1) % nb_stances
    IN /\ IF cur.label = <<"DS", "R">> /\ nn.label = <<"DS", "L">>
          THEN SwingFoot_reset(pose_of(cur.right_foot), pose_of(nn.right_foot))
          ELSE IF cur.label = <<"DS", "L">> /\ nn.label = <<"DS", "R">>
          THEN SwingFoot_reset(pose_of(cur.left_foot), pose_of(nn.left_foot))
          ELSE UNCHANGED <<swing_start, swing_mid, swing_end, swing_pose>>
       /\ cur_stance_id' = new_id
       /\ cur_stance' = new_id
       /\ rem_time' = StanceAt(new_id).duration
       /\ update_robot_ik(StanceAt(new_id))
       /\ UNCHANGED <<stances, cycle, is_over>>

fsm_advance_counting_down ==
    LET cur == CurStance
        nn == next_next_stance
        new_id == (cur_stance_id + 1) % nb_stances
    IN /\ IF cur.label = <<"DS", "R">> /\ nn.label = <<"DS", "L">>
          THEN SwingFoot_reset(pose_of(cur.left_foot), pose_of(nn.left_foot))
          ELSE IF cur.label = <<"DS", "L">> /\ nn.label = <<"DS", "R">>
          THEN SwingFoot_reset(pose_of(cur.right_foot), pose_of(nn.right_foot))
          ELSE UNCHANGED <<swing_start, swing_mid, swing_end, swing_pose>>
       /\ cur_stance_id' = new_id
       /\ cur_stance' = new_id
       /\ rem_time' = StanceAt(new_id).duration - dt
       /\ update_robot_ik(StanceAt(new_id))
       /\ UNCHANGED <<stances, cycle, is_over>>

fsm_advance ==
    LET cur == CurStance
        nn == next_next_stance
        new_id == (cur_stance_id + 1) % nb_stances
    IN /\ IF cur.label = <<"DS", "R">> /\ nn.label = <<"DS", "L">>
          THEN SwingFoot_reset(pose_of(cur.left_foot), pose_of(nn.left_foot))
          ELSE IF cur.label = <<"DS", "L">> /\ nn.label = <<"DS", "R">>
          THEN SwingFoot_reset(pose_of(cur.right_foot), pose_of(nn.right_foot))
          ELSE UNCHANGED <<swing_start, swing_mid, swing_end, swing_pose>>
       /\ cur_stance_id' = new_id
       /\ cur_stance' = new_id
       /\ rem_time' = StanceAt(new_id).duration
       /\ update_robot_ik(StanceAt(new_id))
       /\ UNCHANGED <<stances, cycle, is_over>>

\* The branch on_tick takes, g the value can_switch_to_ss() has in this tick.
fsm_branch(g) ==
    IF is_over THEN "over"
    ELSE IF time_left THEN "count_down"
    ELSE IF must_hold(g) THEN "hold"
    ELSE IF at_terminal THEN "terminal"
    ELSE "advance"

\* MultiContactWalkingFSM.on_tick
FSM_on_tick(g) ==
    /\ branch' = fsm_branch(g)
    /\ can_switch' = IF ~is_over /\ ~time_left /\ startswith_DS(CurStance)
                     THEN Some(g) ELSE None
    /\ dwell' = CASE fsm_branch(g) = "count_down" ->
                       IF branch = "advance" THEN [down |-> 1, held |-> FALSE]
                       ELSE [dwell EXCEPT !.down = @ + 1]
                  [] fsm_branch(g) = "hold" -> [dwell EXCEPT !.held = TRUE]
                  [] OTHER -> dwell
    /\ CASE fsm_branch(g) = "over" -> UNCHANGED fsmVars
         [] fsm_branch(g) = "count_down" -> fsm_count_down
         [] fsm_branch(g) = "hold" -> UNCHANGED fsmVars
         [] fsm_branch(g) = "terminal" ->
                /\ is_over' = TRUE
                /\ UNCHANGED <<stances, cycle, cur_stance_id, cur_stance, rem_time,
                               swing_start, swing_mid, swing_end, swing_pose,
                               ik_left, ik_right>>
         [] OTHER -> fsm_advance

\* Stance.bind(robot) on the first stance: a contact task for each of its feet
bound_task(foot) ==
    IF foot # None
    THEN [kind |-> "ContactTask", target |-> foot[1], weight |-> "contact"]
    ELSE [kind |-> "PoseTask", target |-> "none", weight |-> "swing"]

\* The lengths of the stance sequences: one double support alone, or at least
\* three stances, so that a single support is entered with the swing foot set.
StanceCounts == {1} \cup 3..MaxStances

\* The durations ds_duration and ss_duration of a staircase, in base units: a
\* stance lasts at least as long as the longest tick.
Durations == {d \in 1..MaxDuration : \A tick \in SimDts : tick <= d}

\* MultiContactWalkingFSM.__init__ on a staircase
InitFSM ==
    /\ \E start \in {0, 2}, n \in StanceCounts, dsd \in Durations,
          ssd \in Durations :
          stances = generate_staircase(start, n, dsd, ssd)
    /\ cycle \in BOOLEAN
    /\ cur_stance_id = 0
    /\ cur_stance = 0
    /\ rem_time = stances[1].duration
    /\ is_over = FALSE
    /\ swing_start = None
    /\ swing_mid = None
    /\ swing_end = None
    /\ swing_pose = None
    /\ ik_left = bound_task(stances[1].left_foot)
    /\ ik_right = bound_task(stances[1].right_foot)
    /\ branch = "none"
    /\ can_switch = None
    /\ dwell = [down |-> 0, held |-> FALSE]

\* No state machine: a buffer used on its own.
NoFSM ==
    /\ stances = <<>>
    /\ cycle = FALSE
    /\ cur_stance_id = 0
    /\ cur_stance = 0
    /\ rem_time = 0
    /\ is_over = FALSE
    /\ swing_start = None
    /\ swing_mid = None
    /\ swing_end = None
    /\ swing_pose = None
    /\ ik_left = bound_task(None)
    /\ ik_right = bound_task(None)
    /\ branch = "none"
    /\ can_switch = None
    /\ dwell = [down |-> 0, held |-> FALSE]

\* A stacked control vector of k controls of dimension d, all components distinct
\* and none of them zero.
StackedControls(tag, k, d) == [j \in 1..(k * d) |-> j * Cardinality(CtrlTags) + tag]

\* ------------------------------------------------- COMTubePredictiveControl

\* Positions of the centre of mass: the reference position com.p of a stance,
\* named by the stance's COM target (0, 1, ...), or a position that is within
\* 1e-3 of none of them.
free_com == -1

ComPositions == {free_com} \cup {stances[i].com : i \in 1..Len(stances)}

\* The foot get_preview_targets takes as the stance foot.
stance_foot_by_kind(stance) ==
    IF startswith_DS(stance) THEN stance.left_foot ELSE stance.right_foot

stance_foot(stance) ==
    IF stance.label[2] = "L" THEN stance.left_foot ELSE stance.right_foot

\* get_preview_targets: (rem_time, horizon, target_com, target_comd), the
\* horizon doubled so that half durations are whole numbers.
get_preview_targets_half_excluded ==
    LET cur == CurStance
    IN IF startswith_SS(cur) /\ 2 * rem_time <= cur.duration
       THEN LET horizon2 == 2 * rem_time + 2 * next_stance.duration
                              + next_next_stance.duration
            IN [switch_time |-> rem_time,
                horizon2 |-> horizon2,
                target_com |-> next_stance.com,
                target_comd |-> <<"diff", next_stance.com, cur.com, horizon2>>]
       ELSE IF startswith_DS(cur)
       THEN [switch_time |-> rem_time,
             horizon2 |-> 2 * rem_time + next_stance.duration,
             target_com |-> cur.com,
             target_comd |-> <<"0.4 t", stance_foot(cur)>>]
       ELSE [switch_time |-> rem_time,
             horizon2 |-> 2 * rem_time,
             target_com |-> cur.com,
             target_comd |-> <<"0.4 t", stance_foot(cur)>>]

get_preview_targets_without_next ==
    LET cur == CurStance
    IN IF startswith_SS(cur) /\ 2 * rem_time < cur.duration
       THEN LET horizon2 == 2 * rem_time + 2 * next_stance.duration
                              + next_next_stance.duration
            IN [switch_time |-> rem_time,
                horizon2 |-> horizon2,
                target_com |-> next_stance.com,
                target_comd |-> <<"diff", next_stance.com, cur.com, horizon2>>]
       ELSE [switch_time |-> rem_time,
             horizon2 |-> 2 * rem_time,
             target_com |-> cur.com,
             target_comd |-> <<"0.4 t", stance_foot(cur)>>]

get_preview_targets ==
    LET cur == CurStance
    IN IF startswith_SS(cur) /\ 2 * rem_time < cur.duration
       THEN LET horizon2 == 2 * rem_time + 2 * next_stance.duration
                              + next_next_stance.duration
            IN [switch_time |-> rem_time,
                horizon2 |-> horizon2,
                target_com |-> next_stance.com,
                target_comd |-> <<"diff", next_stance.com, cur.com, horizon2>>]
       ELSE IF startswith_DS(cur)
       THEN [switch_time |-> rem_time,
             horizon2 |-> 2 * rem_time + next_stance.duration,
             target_com |-> cur.com,
             target_comd |-> <<"0.4 t", stance_foot(cur)>>]
       ELSE [switch_time |-> rem_time,
             horizon2 |-> 2 * rem_time,
             target_com |-> cur.com,
             target_comd |-> <<"0.4 t", stance_foot(cur)>>]

\* The sub-phases of primal_vrep: the eight vertices of the tube from
\* start_com to target_com, or one COM position.
full_vrep(start_com, tube_target_com) == <<"vertices", start_com, tube_target_com>>

single_vertex(c) == <<"vertex", c>>

nb_vertices(com_vertices) == IF com_vertices[1] = "vertices" THEN 8 ELSE 1

\* The corners (dx, dy) of the tube's cross-section, in units of its radius.
cross_section == << <<1, 1>>, <<1, -1>>, <<-1, 1>>, <<-1, -1>> >>

\* The centres of the two ends of the tube, each a position and the offset
\* from it along n, the direction from start_com to target_com, in units of
\* the tube's margin.
tube_start_at_start_com(start_com) == <<start_com, 0>>

tube_start(start_com) == <<start_com, -1>>

tube_end(tube_target_com) == <<tube_target_com, 1>>

\* self.full_vrep: the cross-section about tube_start, then about tube_end.
tube_vertices(start_com, tube_target_com) ==
    [i \in 1..(2 * Len(cross_section)) |->
        IF i <= Len(cross_section)
        THEN <<tube_start(start_com), cross_section[i]>>
        ELSE <<tube_end(tube_target_com), cross_section[i - Len(cross_section)]>>]

\* COMTube.compute_primal_vrep: self.primal_vrep.  Two positions are within
\* 1e-3 of each other when they have the same name.
compute_primal_vrep_from_start_com(start_com, tube_target_com, start_stance) ==
    IF startswith_SS(start_stance)
    THEN (IF start_com = tube_target_com
          THEN <<full_vrep(start_com, tube_target_com)>>
          ELSE <<single_vertex(start_com), full_vrep(start_com, tube_target_com)>>)
    ELSE <<full_vrep(start_com, tube_target_com), single_vertex(tube_target_com)>>

compute_primal_vrep(start_com, tube_target_com, start_stance) ==
    IF startswith_SS(start_stance)
    THEN (IF start_stance.com = tube_target_com
          THEN <<full_vrep(start_com, tube_target_com)>>
          ELSE <<single_vertex(start_com), full_vrep(start_com, tube_target_com)>>)
    ELSE <<full_vrep(start_com, tube_target_com), single_vertex(tube_target_com)>>

\* The number of sub-phases of primal_vrep.
nb_primal_subphases(start_stance, tube_target_com) ==
    Len(compute_primal_vrep(com, tube_target_com, start_stance))

\* stance.compute_pendular_accel_cone(com_vertices, reduced=True): a polygon,
\* named by the stance (its position in stances) and the COM vertices it is
\* computed for; a polygon that is an intersection is the set of these.
reduced_cone(stance, com_vertices) == {<<stance, com_vertices>>}

intersect_polygons(p, q) == p \cup q

\* The vertical component of the gravity vector, in units of the gravity
\* constant g = -gravity[2].
gravity_z == -1

\* expand_reduced_pendular_cone with zdd_max = None: the gravity vector and,
\* for each vertex of the hull, a vertex at zdd = +g; vertical holds the
\* vertical components of these vertices, in units of g.
expand_from_origin(reduced_hull) ==
    [reduced |-> TRUE, hull |-> reduced_hull,
     vertical |-> {0} \cup {1 : v \in reduced_hull}]

expand_reduced_pendular_cone(reduced_hull) ==
    [reduced |-> TRUE, hull |-> reduced_hull,
     vertical |-> {gravity_z} \cup {1 : v \in reduced_hull}]

\* COMTube.compute_dual_vrep: self.dual_vrep for the start stance and the next
\* stance at these positions in stances
compute_dual_vrep_one_sided(primal_vrep, full, start, next) ==
    IF Len(primal_vrep) = 1
    THEN << [reduced |-> FALSE, hull |-> {<<start, primal_vrep[1]>>}] >>
    ELSE LET ds_then_ss == nb_vertices(primal_vrep[1]) > 1
             ds_vertices_2d == IF ds_then_ss THEN reduced_cone(start, full)
                               ELSE reduced_cone(next, full)
             ss_vertices_2d == IF ds_then_ss THEN reduced_cone(next, primal_vrep[2])
                               ELSE reduced_cone(start, primal_vrep[1])
             ds_cone == expand_reduced_pendular_cone(ds_vertices_2d)
             ss_cone == expand_reduced_pendular_cone(ss_vertices_2d)
         IN IF ds_then_ss THEN <<ds_cone, ss_cone>> ELSE <<ss_cone, ds_cone>>

compute_dual_vrep(primal_vrep, full, start, next) ==
    IF Len(primal_vrep) = 1
    THEN << [reduced |-> FALSE, hull |-> {<<start, primal_vrep[1]>>}] >>
    ELSE LET ds_then_ss == nb_vertices(primal_vrep[1]) > 1
             ds_vertices_2d == IF ds_then_ss THEN reduced_cone(start, full)
                               ELSE reduced_cone(next, full)
             ss_vertices_2d ==
                 intersect_polygons(ds_vertices_2d,
                                    IF ds_then_ss THEN reduced_cone(next, primal_vrep[2])
                                    ELSE reduced_cone(start, primal_vrep[1]))
             ds_cone == expand_reduced_pendular_cone(ds_vertices_2d)
             ss_cone == expand_reduced_pendular_cone(ss_vertices_2d)
         IN IF ds_then_ss THEN <<ds_cone, ss_cone>> ELSE <<ss_cone, ds_cone>>

\* The stages of compute_preview_tube that call the geometry libraries, in order.
TubeStages == <<"primal_hrep", "dual_vrep", "dual_hrep">>

\* compute_preview_tube, fault the stage that raises ("none": no stage does):
\* the tube it leaves in self.tube.
compute_preview_tube(tube_target_com, fault) ==
    LET primal_vrep == compute_primal_vrep(com, tube_target_com, CurStance)
    IN [start_com |-> com,
        target_com |-> tube_target_com,
        start_stance |-> cur_stance,
        next_stance |-> next_stance_id,
        primal_vrep |-> primal_vrep,
        vertices |-> tube_vertices(com, tube_target_com),
        dual_vrep |-> IF fault \in {"primal_hrep", "dual_vrep"} THEN <<>>
                      ELSE compute_dual_vrep(primal_vrep,
                                             full_vrep(com, tube_target_com),
                                             cur_stance, next_stance_id),
        nb_subphases |-> nb_primal_subphases(CurStance, tube_target_com),
        failed |-> fault]

\* int(x / y) for y # 0: the quotient rounded towards zero
int_div(x, y) ==
    LET ax == IF x < 0 THEN -x ELSE x
        ay == IF y < 0 THEN -y ELSE y
        q == ax \div ay
    IN IF (x < 0) = (y < 0) THEN q ELSE -q

\* switch_step = int(switch_time / dT) with dT = horizon / nb_mpc_steps
switch_step_of(switch_time, horizon2) ==
    int_div(2 * switch_time * nb_mpc_steps, horizon2)

\* The exception that ends the assignment of the constraints (D, e) in
\* compute_preview_control, "none" when it completes: switch_time / dT divides
\* by zero, dual_hrep[1] is read from a tube with one sub-phase, or D2 is used
\* by a step k > switch_step without having been bound.
control_error(switch_time, horizon2, nb_subphases) ==
    IF horizon2 = 0 THEN "ZeroDivisionError"
    ELSE LET sw == switch_step_of(switch_time, horizon2)
         IN IF 0 <= sw /\ sw < nb_mpc_steps - 1 /\ nb_subphases = 1
            THEN "IndexError"
            ELSE IF sw < 0 THEN "UnboundLocalError"
            ELSE "none"

constraints_assigned(switch_time, horizon2, nb_subphases) ==
    control_error(switch_time, horizon2, nb_subphases) = "none"

\* D (and e) as the loop over the steps assigns them: for each step k, the
\* position in tube.dual_hrep of the halfspaces it is given.
constraints_of_steps(sw) == [k \in 1..nb_mpc_steps |-> IF k - 1 <= sw THEN 0 ELSE 1]

\* What compute_preview_control computed before it built the controller.
control_locals(switch_time, horizon2, nb_subphases) ==
    [switch_step |-> IF horizon2 = 0 THEN None
                     ELSE Some(switch_step_of(switch_time, horizon2)),
     error |-> control_error(switch_time, horizon2, nb_subphases)]

\* A tag other than the one of the plan the buffer holds.
fresh_tag ==
    IF pb_U # None /\ pb_U[1] = StackedControls(1, nb_mpc_steps, 3) THEN 2 ELSE 1

\* compute_preview_control, once the constraints are assigned, qp the way
\* solve() ends: "solved", or "ValueError" when the QP has no solution.
solve_and_write_always(qp, horizon2, sw) ==
    /\ preview_control' = Some([switch_step |-> sw, timestep |-> horizon2,
                                D |-> constraints_of_steps(sw)])
    /\ LET U == StackedControls(fresh_tag, nb_mpc_steps, 3)
           dT == [k \in 1..nb_mpc_steps |-> horizon2]
       IN /\ pb_U' = Some(U)
          /\ pb_dT' = Some(dT)
          /\ cur_index' = 0
          /\ pb_rem_time' = 0
          /\ nb_steps' = nb_mpc_steps
          /\ switch_step' = Some(sw)
          /\ UNCHANGED <<u_dim, cur_control, dt>>

solve_and_write_keeps_rem_time(qp, horizon2, sw) ==
    /\ preview_control' = Some([switch_step |-> sw, timestep |-> horizon2,
                                D |-> constraints_of_steps(sw)])
    /\ IF qp = "solved"
       THEN LET U == StackedControls(fresh_tag, nb_mpc_steps, 3)
                dT == [k \in 1..nb_mpc_steps |-> horizon2]
            IN /\ pb_U' = Some(U)
               /\ pb_dT' = Some(dT)
               /\ cur_index' = 0
               /\ nb_steps' = nb_mpc_steps
               /\ switch_step' = Some(sw)
               /\ UNCHANGED <<u_dim, cur_control, dt, pb_rem_time>>
       ELSE UNCHANGED bufVars

solve_and_write(qp, horizon2, sw) ==
    /\ preview_control' = Some([switch_step |-> sw, timestep |-> horizon2,
                                D |-> constraints_of_steps(sw)])
    /\ IF qp = "solved"
       THEN LET U == StackedControls(fresh_tag, nb_mpc_steps, 3)
                dT == [k \in 1..nb_mpc_steps |-> horizon2]
            IN /\ pb_U' = Some(U)
               /\ pb_dT' = Some(dT)
               /\ cur_index' = 0
               /\ pb_rem_time' = 0
               /\ nb_steps' = nb_mpc_steps
               /\ switch_step' = Some(sw)
               /\ UNCHANGED <<u_dim, cur_control, dt>>
       ELSE UNCHANGED bufVars

\* How COMTubePredictiveControl.on_tick ends, given the stage of the tube that
\* raises and the way solve() ends.
mpc_result_tube_ignored(fault, qp) ==
    LET targets == get_preview_targets
        nsub == nb_primal_subphases(CurStance, targets.target_com)
    IN IF ~constraints_assigned(targets.switch_time, targets.horizon2, nsub)
       THEN "control_error"
       ELSE IF qp = "solved" THEN "solved"
       ELSE "qp_error"

mpc_result(fault, qp) ==
    LET targets == get_preview_targets
        nsub == nb_primal_subphases(CurStance, targets.target_com)
    IN IF fault # "none" THEN "tube_error"
       ELSE IF ~constraints_assigned(targets.switch_time, targets.horizon2, nsub)
       THEN "control_error"
       ELSE IF qp = "solved" THEN "solved"
       ELSE "qp_error"

\* sim.log_comp_time of the build and solve times of self.preview_control, which
\* on_tick reaches when compute_preview_control has returned: it returns.
log_comp_times_raises == FALSE

\* COMTubePredictiveControl.on_tick
MPC_on_tick(fault, qp) ==
    LET targets == get_preview_targets
        result == mpc_result(fault, qp)
    IN /\ preview_targets' = Some(targets)
       /\ com' = com
       /\ target_com' = Some(targets.target_com)
       /\ target_comd' = Some(targets.target_comd)
       /\ tube' = Some(compute_preview_tube(targets.target_com, fault))
       /\ control_call' = IF result = "tube_error" THEN None
                          ELSE Some(control_locals(targets.switch_time, targets.horizon2,
                                                   nb_primal_subphases(CurStance,
                                                                       targets.target_com)))
       /\ mpc_outcome' = result
       /\ IF result \in {"tube_error", "control_error"}
          THEN UNCHANGED <<preview_control, bufVars>>
          ELSE solve_and_write(qp, targets.horizon2,
                               switch_step_of(targets.switch_time, targets.horizon2))
       /\ raised' = (raised \/ (result \in {"solved", "qp_error"} /\ log_comp_times_raises))

\* COMTubePredictiveControl.__init__, and the simulation about to tick
NewMPC(com_p) ==
    /\ turn = "fsm"
    /\ com = com_p
    /\ preview_targets = None
    /\ control_call = None
    /\ target_com = Some(stances[1].com)
    /\ target_comd = None
    /\ tube = None
    /\ preview_control = None
    /\ mpc_outcome = "none"
    /\ raised = FALSE

\* No controller.
NoMPC ==
    /\ turn = "none"
    /\ com = free_com
    /\ preview_targets = None
    /\ control_call = None
    /\ target_com = None
    /\ target_comd = None
    /\ tube = None
    /\ preview_control = None
    /\ mpc_outcome = "none"
    /\ raised = FALSE

\* No thread is in a method of the buffer.
NoThreads ==
    /\ lock = "free"
    /\ p_pc = "idle"
    /\ p_step = 0
    /\ p_call = None
    /\ c_pc = "idle"
    /\ c_local = [u |-> None, dT |-> None]
    /\ drawn = None

\* --------------------------------------------------------- AvgStdEstimator

\* AvgStdEstimator.__init__, which calls reset(): nothing added yet
NoEstimator ==
    /\ est_last_value = None
    /\ est_n = 0
    /\ est_x = 0
    /\ est_x2 = 0
    /\ est_x_max = None
    /\ est_x_min = None
    /\ est_added = <<>>

\* The values of a time series, and the most of them added between two resets.
MaxValue == 2

MaxAdds == 3

Values == (0 - MaxValue)..MaxValue

\* AvgStdEstimator.reset
AvgStdEstimator_reset ==
    /\ est_last_value' = None
    /\ est_n' = 0
    /\ est_x' = 0
    /\ est_x2' = 0
    /\ est_x_max' = None
    /\ est_x_min' = None

add_keeping_first_min(x) ==
    /\ est_last_value' = Some(x)
    /\ est_n' = est_n + 1
    /\ est_x' = est_x + x
    /\ est_x2' = est_x2 + x * x
    /\ est_x_max' = IF est_x_max = None \/ x > est_x_max[1] THEN Some(x)
                    ELSE est_x_max
    /\ est_x_min' = IF est_x_min = None THEN Some(x) ELSE est_x_min

\* AvgStdEstimator.add
add(x) ==
    /\ est_last_value' = Some(x)
    /\ est_n' = est_n + 1
    /\ est_x' = est_x + x
    /\ est_x2' = est_x2 + x * x
    /\ est_x_max' = IF est_x_max = None \/ x > est_x_max[1] THEN Some(x)
                    ELSE est_x_max
    /\ est_x_min' = IF est_x_min = None \/ x < est_x_min[1] THEN Some(x)
                    ELSE est_x_min

\* AvgStdEstimator.avg: None, or the quotient x / n as the pair of its terms
avg == IF est_n < 1 THEN None ELSE Some([num |-> est_x, den |-> est_n])

\* AvgStdEstimator.std: None, or 0, or sqrt(n / (n - 1)) * sqrt(x2 / n - avg ** 2),
\* which is the square root of (n * x2 - x * x) / (n * (n - 1)): the terms of
\* the quotient under the root
std ==
    IF est_n < 1 THEN None
    ELSE IF est_n = 1 THEN Some([num |-> 0, den |-> 1])
    ELSE Some([num |-> est_n * est_x2 - est_x * est_x,
               den |-> est_n * (est_n - 1)])

EstimatorAdd ==
    /\ Len(est_added) < MaxAdds
    /\ \E x \in Values :
          /\ add(x)
          /\ est_added' = Append(est_added, x)
    /\ UNCHANGED <<bufVars, obsVars, fsmVars, fsmObs, mpcVars, concVars, pendVars,
                   applied>>

EstimatorReset ==
    /\ AvgStdEstimator_reset
    /\ est_added' = <<>>
    /\ UNCHANGED <<bufVars, obsVars, fsmVars, fsmObs, mpcVars, concVars, pendVars,
                   applied>>

\* -------------------------------------------------------- InvertedPendulum

\* The largest stiffness, the stiffnesses being 0..MaxLambda in a unit of choice.
MaxLambda == 3

Lambdas == 0..MaxLambda

\* "self.clamp if clamp is None else clamp", clamp the argument of set_lambda
clamping_in_effect_either(clamp) == ip_clamp \/ (clamp # None /\ clamp[1])

clamping_in_effect(clamp) == IF clamp = None THEN ip_clamp ELSE clamp[1]

\* The two tests of set_lambda under clamping, in order.
clamped(lambda_) ==
    LET raised_to_min == IF ip_lambda_min # None /\ lambda_ < ip_lambda_min[1]
                         THEN ip_lambda_min[1] ELSE lambda_
    IN IF ip_lambda_max # None /\ raised_to_min > ip_lambda_max[1]
       THEN ip_lambda_max[1] ELSE raised_to_min

\* InvertedPendulum.set_lambda(lambda_, clamp)
set_lambda(lambda_, clamp) ==
    /\ ip_lambda' = IF clamping_in_effect(clamp) THEN clamped(lambda_) ELSE lambda_
    /\ UNCHANGED <<ip_clamp, ip_lambda_min, ip_lambda_max>>

\* No pendulum.
NoPendulum ==
    /\ ip_clamp = FALSE
    /\ ip_lambda = 0
    /\ ip_lambda_min = None
    /\ ip_lambda_max = None
    /\ ip_call = None

\* ------------------------------------------- the buffer used on its own

\* The (U, dT) a caller may hand to update_preview: len(U) = len(dT) * u_dim.
Plans(d) ==
    UNION {{StackedControls(tag, k, d) : tag \in CtrlTags} \X [1..k -> DurVals] :
              k \in 0..MaxSteps}

\* PreviewBuffer.__init__(u_dim), and nothing observed yet
NewBuffer(d) ==
    /\ u_dim = d
    /\ pb_U = None
    /\ pb_dT = None
    /\ cur_control = None
    /\ cur_index = 0
    /\ nb_steps = 0
    /\ pb_rem_time = 0
    /\ switch_step = None
    /\ last_ret = None
    /\ cb_control = None
    /\ fetched = FALSE
    /\ arg_U = None
    /\ arg_dT = None
    /\ served = 0
    /\ prior = "new"
    /\ since_reset = FALSE
    /\ applied = None

InitBuffer ==
    /\ \E d \in UDims : NewBuffer(d)
    /\ dt \in SimDts
    /\ NoFSM
    /\ NoMPC
    /\ NoThreads
    /\ NoPendulum
    /\ NoEstimator

CallUpdatePreview ==
    \E p \in Plans(u_dim) :
        /\ update_preview(p[1], p[2])
        /\ arg_U' = Some(p[1])
        /\ arg_dT' = Some(p[2])
        /\ served' = 0
        /\ prior' = buffer_state
        /\ since_reset' = FALSE
        /\ last_ret' = None
        /\ applied' = None
        /\ UNCHANGED <<cb_control, fetched>>

CallReset ==
    /\ reset
    /\ arg_U' = None
    /\ arg_dT' = None
    /\ served' = 0
    /\ prior' = buffer_state
    /\ since_reset' = TRUE
    /\ last_ret' = None
    /\ applied' = None
    /\ UNCHANGED <<cb_control, fetched>>

CallGetNextControl ==
    /\ get_next_control
    /\ last_ret' = Some(get_next_control_result)
    /\ served' = one_more_served
    /\ UNCHANGED <<cb_control, fetched, arg_U, arg_dT, prior, since_reset, applied>>

\* The control on_tick fetched last and the ticks it has been applied in,
\* after one more on_tick.
applied_after_tick ==
    IF pb_rem_time < dt * TimeScale
    THEN Some([dT |-> get_next_control_result[2], ticks |-> 1,
               prev |-> IF applied = None THEN None
                        ELSE Some([dT |-> applied[1].dT,
                                   ticks |-> applied[1].ticks])])
    ELSE IF applied = None THEN None
    ELSE Some([applied[1] EXCEPT !.ticks = @ + 1])

TickBuffer ==
    /\ PreviewBuffer_on_tick
    /\ fetched' = (pb_rem_time < dt * TimeScale)
    /\ last_ret' = IF fetched' THEN Some(get_next_control_result) ELSE None
    /\ served' = IF fetched' THEN one_more_served ELSE served
    /\ applied' = applied_after_tick
    /\ UNCHANGED <<arg_U, arg_dT, prior, since_reset>>

NextBuffer ==
    \/ CallUpdatePreview /\ UNCHANGED <<fsmVars, fsmObs, mpcVars, concVars, pendVars, estVars>>
    \/ CallReset /\ UNCHANGED <<fsmVars, fsmObs, mpcVars, concVars, pendVars, estVars>>
    \/ CallGetNextControl /\ UNCHANGED <<fsmVars, fsmObs, mpcVars, concVars, pendVars, estVars>>
    \/ TickBuffer /\ UNCHANGED <<fsmVars, fsmObs, mpcVars, concVars, pendVars, estVars>>

SpecBuffer == InitBuffer /\ [][NextBuffer]_vars

\* -------------------------------------- PreviewBuffer shared by two threads

\* "with self.lock:" entered by thread t: the lock is free and t takes it
lock_acquire_skipped(t) ==
    /\ lock' = lock

lock_acquire(t) ==
    /\ lock = "free"
    /\ lock' = t

\* "with self.lock:" left by thread t
lock_release(t) ==
    lock' = IF lock = t THEN "free" ELSE lock

\* The durations of a plan of n steps, each naming its plan and its step.
StackedDurations(tag, n) == StackedControls(tag, n, 1)

\* The statements of the body of update_preview, and of reset, in order.
UpdateBody == <<"_U", "_dT", "cur_index", "nb_steps", "rem_time", "switch_step">>

ResetBody == <<"_U", "_dT", "cur_control", "cur_index", "rem_time">>

BodyOf(call) == IF call.method = "update_preview" THEN UpdateBody ELSE ResetBody

\* One assignment of update_preview(U, dT)
update_preview_statement(field, U, dT) ==
    /\ pb_U' = IF field = "_U" THEN Some(U) ELSE pb_U
    /\ pb_dT' = IF field = "_dT" THEN Some(dT) ELSE pb_dT
    /\ cur_index' = IF field = "cur_index" THEN 0 ELSE cur_index
    /\ nb_steps' = IF field = "nb_steps" THEN Len(dT) ELSE nb_steps
    /\ pb_rem_time' = IF field = "rem_time" THEN 0 ELSE pb_rem_time
    /\ switch_step' = IF field = "switch_step" THEN None ELSE switch_step
    /\ UNCHANGED <<u_dim, cur_control, dt>>

\* One assignment of reset()
reset_statement(field) ==
    /\ pb_U' = IF field = "_U" THEN None ELSE pb_U
    /\ pb_dT' = IF field = "_dT" THEN None ELSE pb_dT
    /\ cur_control' = IF field = "cur_control" THEN None ELSE cur_control
    /\ cur_index' = IF field = "cur_index" THEN 0 ELSE cur_index
    /\ pb_rem_time' = IF field = "rem_time" THEN 0 ELSE pb_rem_time
    /\ UNCHANGED <<u_dim, nb_steps, switch_step, dt>>

\* The producer calls update_preview(U, dT) or reset().
ProducerCall ==
    /\ p_pc = "idle"
    /\ \/ \E tag \in CtrlTags, n \in 0..MaxSteps :
             p_call' = Some([method |-> "update_preview",
                             U |-> StackedControls(tag, n, u_dim),
                             dT |-> StackedDurations(tag, n)])
       \/ p_call' = Some([method |-> "reset"])
    /\ p_pc' = "acquire"
    /\ UNCHANGED <<bufVars, obsVars, lock, p_step, c_pc, c_local>>

ProducerAcquire ==
    /\ p_pc = "acquire"
    /\ lock_acquire("producer")
    /\ p_pc' = "write"
    /\ p_step' = 1
    /\ UNCHANGED <<bufVars, obsVars, p_call, c_pc, c_local>>

\* The producer runs the next assignment of the body of its method.
ProducerWrite ==
    /\ p_pc = "write"
    /\ IF p_call[1].method = "update_preview"
       THEN update_preview_statement(UpdateBody[p_step], p_call[1].U, p_call[1].dT)
       ELSE reset_statement(ResetBody[p_step])
    /\ p_pc' = IF p_step = Len(BodyOf(p_call[1])) THEN "release" ELSE "write"
    /\ p_step' = p_step + 1
    /\ UNCHANGED <<obsVars, lock, p_call, c_pc, c_local>>

ProducerRelease ==
    /\ p_pc = "release"
    /\ lock_release("producer")
    /\ p_pc' = "idle"
    /\ p_step' = 0
    /\ p_call' = None
    /\ UNCHANGED <<bufVars, obsVars, c_pc, c_local>>

\* The consumer calls get_next_control().
ConsumerCall ==
    /\ c_pc = "idle"
    /\ c_pc' = "acquire"
    /\ c_local' = [u |-> None, dT |-> None]
    /\ last_ret' = None
    /\ UNCHANGED <<bufVars, cb_control, fetched, arg_U, arg_dT, served, prior,
                   since_reset, lock, p_pc, p_step, p_call>>

ConsumerAcquire ==
    /\ c_pc = "acquire"
    /\ lock_acquire("consumer")
    /\ c_pc' = "is_empty"
    /\ UNCHANGED <<bufVars, obsVars, p_pc, p_step, p_call, c_local>>

\* if self.is_empty: return self._default_control
ConsumerCheckEmpty ==
    /\ c_pc = "is_empty"
    /\ IF is_empty
       THEN /\ last_ret' = Some(default_control)
            /\ c_pc' = "release"
       ELSE /\ last_ret' = last_ret
            /\ c_pc' = "slice"
    /\ UNCHANGED <<bufVars, cb_control, fetched, arg_U, arg_dT, served, prior,
                   since_reset, lock, p_pc, p_step, p_call, c_local>>

\* j = ...; u = self._U[j:j + self.u_dim]; if u.shape[0] == 0: return the
\* default.  Slicing None raises a TypeError.
ConsumerSlice ==
    /\ c_pc = "slice"
    /\ IF pb_U = None
       THEN /\ last_ret' = Some(<<"TypeError">>)
            /\ c_pc' = "release"
            /\ c_local' = c_local
       ELSE IF Len(next_u) = 0
       THEN /\ last_ret' = Some(default_control)
            /\ c_pc' = "release"
            /\ c_local' = c_local
       ELSE /\ last_ret' = last_ret
            /\ c_pc' = "dT"
            /\ c_local' = [c_local EXCEPT !.u = Some(next_u)]
    /\ UNCHANGED <<bufVars, cb_control, fetched, arg_U, arg_dT, served, prior,
                   since_reset, lock, p_pc, p_step, p_call>>

\* dT = self._dT[self.cur_index]: a TypeError on None, an IndexError past the end
ConsumerReadDT ==
    /\ c_pc = "dT"
    /\ IF pb_dT = None
       THEN /\ last_ret' = Some(<<"TypeError">>)
            /\ c_pc' = "release"
            /\ c_local' = c_local
       ELSE IF cur_index >= Len(pb_dT[1])
       THEN /\ last_ret' = Some(<<"IndexError">>)
            /\ c_pc' = "release"
            /\ c_local' = c_local
       ELSE /\ last_ret' = last_ret
            /\ c_pc' = "increment"
            /\ c_local' = [c_local EXCEPT !.dT = Some(pb_dT[1][cur_index + 1])]
    /\ UNCHANGED <<bufVars, cb_control, fetched, arg_U, arg_dT, served, prior,
                   since_reset, lock, p_pc, p_step, p_call>>

\* self.cur_index += 1; return (u, dT)
ConsumerIncrement ==
    /\ c_pc = "increment"
    /\ cur_index' = cur_index + 1
    /\ last_ret' = Some(<<c_local.u[1], c_local.dT[1]>>)
    /\ c_pc' = "release"
    /\ UNCHANGED <<u_dim, pb_U, pb_dT, cur_control, nb_steps, pb_rem_time, switch_step,
                   dt, cb_control, fetched, arg_U, arg_dT, served, prior, since_reset,
                   lock, p_pc, p_step, p_call, c_local>>

ConsumerRelease ==
    /\ c_pc = "release"
    /\ lock_release("consumer")
    /\ c_pc' = "idle"
    /\ UNCHANGED <<bufVars, obsVars, p_pc, p_step, p_call, c_local>>

InitThreads ==
    /\ \E d \in UDims : NewBuffer(d)
    /\ dt \in {1}
    /\ NoFSM
    /\ NoMPC
    /\ NoThreads
    /\ NoPendulum
    /\ NoEstimator

NextThreads ==
    \/ ProducerCall /\ UNCHANGED <<fsmVars, fsmObs, mpcVars, drawn, pendVars, estVars, applied>>
    \/ ProducerAcquire /\ UNCHANGED <<fsmVars, fsmObs, mpcVars, drawn, pendVars, estVars, applied>>
    \/ ProducerWrite /\ UNCHANGED <<fsmVars, fsmObs, mpcVars, drawn, pendVars, estVars, applied>>
    \/ ProducerRelease /\ UNCHANGED <<fsmVars, fsmObs, mpcVars, drawn, pendVars, estVars, applied>>
    \/ ConsumerCall /\ UNCHANGED <<fsmVars, fsmObs, mpcVars, drawn, pendVars, estVars, applied>>
    \/ ConsumerAcquire /\ UNCHANGED <<fsmVars, fsmObs, mpcVars, drawn, pendVars, estVars, applied>>
    \/ ConsumerCheckEmpty /\ UNCHANGED <<fsmVars, fsmObs, mpcVars, drawn, pendVars, estVars, applied>>
    \/ ConsumerSlice /\ UNCHANGED <<fsmVars, fsmObs, mpcVars, drawn, pendVars, estVars, applied>>
    \/ ConsumerReadDT /\ UNCHANGED <<fsmVars, fsmObs, mpcVars, drawn, pendVars, estVars, applied>>
    \/ ConsumerIncrement /\ UNCHANGED <<fsmVars, fsmObs, mpcVars, drawn, pendVars, estVars, applied>>
    \/ ConsumerRelease /\ UNCHANGED <<fsmVars, fsmObs, mpcVars, drawn, pendVars, estVars, applied>>

SpecThreads == InitThreads /\ [][NextThreads]_vars

\* -------------------------------------------- the state machine on its own

\* The machine is ticked by the simulation, the centre of mass being anywhere.
InitFSMAlone ==
    /\ InitFSM
    /\ dt \in SimDts
    /\ NewBuffer(3)
    /\ NoMPC
    /\ NoThreads
    /\ NoPendulum
    /\ NoEstimator

TickFSM ==
    /\ \E g \in BOOLEAN : FSM_on_tick(g)
    /\ UNCHANGED <<bufVars, obsVars, mpcVars, concVars, pendVars, estVars, applied>>

SpecFSM == InitFSMAlone /\ [][TickFSM]_vars

\* A tick in which can_switch_to_ss(), if evaluated, returns True
TickGuardPasses ==
    /\ FSM_on_tick(TRUE)
    /\ UNCHANGED <<bufVars, obsVars, mpcVars, concVars, pendVars, estVars, applied>>

\* The simulation keeps ticking the machine, and the guard does not fail for
\* ever: a tick in which it passes comes.
SpecFSMFair ==
    InitFSMAlone /\ [][TickFSM]_vars /\ WF_vars(TickFSM) /\ WF_vars(TickGuardPasses)

\* ------------------- the state machine with durations that ticks do not divide

\* MultiContactWalkingFSM.__init__ on a staircase whose durations are short or
\* long against a tick, and the tick loop about to start
InitFSMCoarse ==
    /\ \E start \in {0, 2}, n \in StanceCounts, dsd \in DurVals, ssd \in DurVals :
          stances = generate_staircase(start, n, dsd, ssd)
    /\ cycle \in BOOLEAN
    /\ cur_stance_id = 0
    /\ cur_stance = 0
    /\ rem_time = stances[1].duration
    /\ is_over = FALSE
    /\ swing_start = None
    /\ swing_mid = None
    /\ swing_end = None
    /\ swing_pose = None
    /\ ik_left = bound_task(stances[1].left_foot)
    /\ ik_right = bound_task(stances[1].right_foot)
    /\ branch = "none"
    /\ can_switch = None
    /\ dwell = [down |-> 0, held |-> FALSE]
    /\ dt \in SimDts
    /\ NewBuffer(3)
    /\ NoMPC
    /\ NoThreads
    /\ NoPendulum
    /\ NoEstimator

SpecHorizon == InitFSMCoarse /\ [][TickFSM]_vars

\* ------------------------------------------------------------ the tick loop

\* The staircases of the loop: three or four stances from the first one, so
\* that the last stance is a double support or a single support, with these
\* (ds_duration, ss_duration).
LoopStanceCounts == {3, 4}

LoopDurations == {<<2, 3>>, <<3, 2>>}

\* __main__: the buffer, the state machine and the controller, scheduled in
\* this order
InitLoop ==
    /\ \E n \in LoopStanceCounts, d \in LoopDurations :
          stances = generate_staircase(0, n, d[1], d[2])
    /\ cycle \in BOOLEAN
    /\ cur_stance_id = 0
    /\ cur_stance = 0
    /\ rem_time = stances[1].duration
    /\ is_over = FALSE
    /\ swing_start = None
    /\ swing_mid = None
    /\ swing_end = None
    /\ swing_pose = None
    /\ ik_left = bound_task(stances[1].left_foot)
    /\ ik_right = bound_task(stances[1].right_foot)
    /\ branch = "none"
    /\ can_switch = None
    /\ dwell = [down |-> 0, held |-> FALSE]
    /\ dt \in SimDts
    /\ NewBuffer(3)
    /\ NewMPC(free_com)
    /\ NoThreads
    /\ NoPendulum
    /\ NoEstimator

LoopFSM ==
    /\ turn = "fsm"
    /\ \E g \in BOOLEAN : FSM_on_tick(g)
    /\ turn' = "mpc"
    /\ UNCHANGED <<bufVars, obsVars, com, preview_targets, control_call, target_com,
                   target_comd,
                   tube, preview_control, mpc_outcome, raised, concVars, pendVars, estVars, applied>>

LoopMPC ==
    /\ turn = "mpc"
    /\ \E fault \in {"none"} \cup {TubeStages[i] : i \in 1..Len(TubeStages)},
          qp \in {"solved", "ValueError"} : MPC_on_tick(fault, qp)
    /\ turn' = "buffer"
    /\ arg_U' = IF mpc_outcome' = "solved" THEN pb_U' ELSE arg_U
    /\ arg_dT' = IF mpc_outcome' = "solved" THEN pb_dT' ELSE arg_dT
    /\ applied' = IF mpc_outcome' = "solved" THEN None ELSE applied
    /\ UNCHANGED <<last_ret, cb_control, fetched, served, prior, since_reset, fsmVars,
                   fsmObs, concVars, pendVars, estVars>>

\* The callback integrates the COM with cur_control, and raises on None; the
\* COM moves to a position that is none of the stances' references.
LoopBuffer ==
    /\ turn = "buffer"
    /\ PreviewBuffer_on_tick
    /\ com' = free_com
    /\ fetched' = (pb_rem_time < dt * TimeScale)
    /\ raised' = (raised \/ cur_control' = None)
    /\ turn' = "fsm"
    /\ applied' = applied_after_tick
    /\ UNCHANGED <<last_ret, arg_U, arg_dT, served, prior, since_reset, fsmVars,
                   fsmObs, preview_targets, control_call, target_com, target_comd, tube,
                   preview_control, mpc_outcome, concVars, pendVars, estVars>>

NextLoop ==
    \/ LoopFSM
    \/ LoopMPC
    \/ LoopBuffer

SpecLoop == InitLoop /\ [][NextLoop]_vars

\* ------------------------------- the state machine and the controller

\* The state machine and the controller ticked in turn, on any staircase and
\* with the COM at any position.
InitPreview ==
    /\ InitFSM
    /\ dt \in SimDts
    /\ NewBuffer(3)
    /\ \E c \in ComPositions : NewMPC(c)
    /\ NoThreads
    /\ NoPendulum
    /\ NoEstimator

PreviewFSM ==
    /\ turn = "fsm"
    /\ \E g \in BOOLEAN : FSM_on_tick(g)
    /\ turn' = "mpc"
    /\ UNCHANGED <<bufVars, obsVars, com, preview_targets, control_call, target_com,
                   target_comd, tube, preview_control, mpc_outcome, raised, concVars, pendVars, estVars, applied>>

\* The geometry libraries compute every stage of the tube, and the QP has a
\* solution.
PreviewMPC ==
    /\ turn = "mpc"
    /\ MPC_on_tick("none", "solved")
    /\ turn' = "fsm"
    /\ UNCHANGED <<obsVars, fsmVars, fsmObs, concVars, pendVars, estVars, applied>>

NextPreview ==
    \/ PreviewFSM
    \/ PreviewMPC

SpecPreview == InitPreview /\ [][NextPreview]_vars

\* ------------------- a planner, an integrator and a drawer in three threads

\* The plan the planner computes under this tag: the controls, their
\* durations in buffer units (longer than two ticks), and the switch step.
plan_of(tag) ==
    [U |-> StackedControls(tag, nb_mpc_steps, 3),
     dT |-> [k \in 1..nb_mpc_steps |-> 2 * TimeScale + tag],
     switch_step |-> tag - 1]

\* compute_preview_control from the construction of the controller to the
\* call of update_preview, the solve succeeding
PlannerSolve ==
    /\ p_pc = "idle"
    /\ \E tag \in CtrlTags :
          /\ preview_control' = Some([switch_step |-> plan_of(tag).switch_step,
                                      timestep |-> plan_of(tag).dT[1],
                                      D |-> constraints_of_steps(plan_of(tag).switch_step)])
          /\ p_call' = Some([method |-> "update_preview", U |-> plan_of(tag).U,
                             dT |-> plan_of(tag).dT])
    /\ p_pc' = "acquire"
    /\ UNCHANGED <<bufVars, obsVars, lock, p_step, c_pc, c_local, drawn, turn, com,
                   preview_targets, control_call, target_com, target_comd, tube,
                   mpc_outcome, raised>>

\* update_preview returns to compute_preview_control.
PlannerReturn ==
    /\ p_pc = "release"
    /\ lock_release("producer")
    /\ p_pc' = "nb_steps"
    /\ arg_U' = Some(p_call[1].U)
    /\ arg_dT' = Some(p_call[1].dT)
    /\ served' = 0
    /\ UNCHANGED <<bufVars, last_ret, cb_control, fetched, prior, since_reset, p_step,
                   p_call, c_pc, c_local, drawn, mpcVars>>

\* self.preview_buffer.nb_steps = self.nb_mpc_steps
PlannerSetNbSteps ==
    /\ p_pc = "nb_steps"
    /\ nb_steps' = nb_mpc_steps
    /\ p_pc' = "switch_step"
    /\ UNCHANGED <<u_dim, pb_U, pb_dT, cur_control, cur_index, pb_rem_time, switch_step,
                   dt, obsVars, lock, p_step, p_call, c_pc, c_local, drawn, mpcVars>>

\* self.preview_buffer.switch_step = self.preview_control.switch_step
PlannerSetSwitchStep ==
    /\ p_pc = "switch_step"
    /\ switch_step' = Some(preview_control[1].switch_step)
    /\ p_pc' = "idle"
    /\ p_step' = 0
    /\ p_call' = None
    /\ UNCHANGED <<u_dim, pb_U, pb_dT, cur_control, cur_index, nb_steps, pb_rem_time,
                   dt, obsVars, lock, c_pc, c_local, drawn, mpcVars>>

\* PreviewBuffer.on_tick: if self.rem_time < sim.dt, call get_next_control
IntegratorTick ==
    /\ c_pc = "idle"
    /\ c_pc' = IF pb_rem_time < dt * TimeScale THEN "acquire" ELSE "callback"
    /\ fetched' = (pb_rem_time < dt * TimeScale)
    /\ c_local' = [u |-> None, dT |-> None]
    /\ last_ret' = None
    /\ UNCHANGED <<bufVars, cb_control, arg_U, arg_dT, served, prior, since_reset, lock,
                   p_pc, p_step, p_call, drawn, mpcVars>>

\* get_next_control returns to on_tick: u, dT = ...
IntegratorReturn ==
    /\ c_pc = "release"
    /\ lock_release("consumer")
    /\ c_pc' = "cur_control"
    /\ c_local' = [u |-> Some(last_ret[1][1]), dT |-> Some(last_ret[1][2])]
    /\ UNCHANGED <<bufVars, obsVars, p_pc, p_step, p_call, drawn, mpcVars>>

\* self.cur_control = u
IntegratorSetControl ==
    /\ c_pc = "cur_control"
    /\ cur_control' = c_local.u
    /\ served' = one_more_served
    /\ c_pc' = "rem_time"
    /\ UNCHANGED <<u_dim, pb_U, pb_dT, cur_index, nb_steps, pb_rem_time, switch_step, dt,
                   last_ret, cb_control, fetched, arg_U, arg_dT, prior, since_reset,
                   lock, p_pc, p_step, p_call, c_local, drawn, mpcVars>>

\* self.rem_time = dT
IntegratorSetRemTime ==
    /\ c_pc = "rem_time"
    /\ pb_rem_time' = c_local.dT[1]
    /\ c_pc' = "callback"
    /\ UNCHANGED <<u_dim, pb_U, pb_dT, cur_control, cur_index, nb_steps, switch_step, dt,
                   obsVars, lock, p_pc, p_step, p_call, c_local, drawn, mpcVars>>

\* self.callback(self.cur_control, sim.dt)
IntegratorCallback ==
    /\ c_pc = "callback"
    /\ cb_control' = cur_control
    /\ c_pc' = "decrement"
    /\ UNCHANGED <<bufVars, last_ret, fetched, arg_U, arg_dT, served, prior,
                   since_reset, lock, p_pc, p_step, p_call, c_local, drawn, mpcVars>>

\* self.rem_time -= sim.dt
IntegratorDecrement ==
    /\ c_pc = "decrement"
    /\ pb_rem_time' = pb_rem_time - dt * TimeScale
    /\ c_pc' = "idle"
    /\ UNCHANGED <<u_dim, pb_U, pb_dT, cur_control, cur_index, nb_steps, switch_step, dt,
                   obsVars, lock, p_pc, p_step, p_call, c_local, drawn, mpcVars>>

\* PreviewDrawer.on_tick: nothing for an empty buffer, else it reads nb_steps,
\* _U, _dT and switch_step, without the lock.
PreviewDrawer_on_tick ==
    /\ drawn' = IF is_empty THEN drawn
                ELSE Some([U |-> pb_U, dT |-> pb_dT, nb_steps |-> nb_steps,
                           switch_step |-> switch_step])
    /\ UNCHANGED <<bufVars, obsVars, lock, p_pc, p_step, p_call, c_pc, c_local, mpcVars>>

InitDecoupled ==
    /\ NewBuffer(3)
    /\ dt \in {1}
    /\ NoFSM
    /\ NoMPC
    /\ NoThreads
    /\ NoPendulum
    /\ NoEstimator

NextDecoupled ==
    \/ PlannerSolve /\ UNCHANGED <<fsmVars, fsmObs, pendVars, estVars, applied>>
    \/ ProducerAcquire /\ UNCHANGED <<fsmVars, fsmObs, mpcVars, drawn, pendVars, estVars, applied>>
    \/ ProducerWrite /\ UNCHANGED <<fsmVars, fsmObs, mpcVars, drawn, pendVars, estVars, applied>>
    \/ PlannerReturn /\ UNCHANGED <<fsmVars, fsmObs, pendVars, estVars, applied>>
    \/ PlannerSetNbSteps /\ UNCHANGED <<fsmVars, fsmObs, pendVars, estVars, applied>>
    \/ PlannerSetSwitchStep /\ UNCHANGED <<fsmVars, fsmObs, pendVars, estVars, applied>>
    \/ IntegratorTick /\ UNCHANGED <<fsmVars, fsmObs, pendVars, estVars, applied>>
    \/ ConsumerAcquire /\ UNCHANGED <<fsmVars, fsmObs, mpcVars, drawn, pendVars, estVars, applied>>
    \/ ConsumerCheckEmpty /\ UNCHANGED <<fsmVars, fsmObs, mpcVars, drawn, pendVars, estVars, applied>>
    \/ ConsumerSlice /\ UNCHANGED <<fsmVars, fsmObs, mpcVars, drawn, pendVars, estVars, applied>>
    \/ ConsumerReadDT /\ UNCHANGED <<fsmVars, fsmObs, mpcVars, drawn, pendVars, estVars, applied>>
    \/ ConsumerIncrement /\ UNCHANGED <<fsmVars, fsmObs, mpcVars, drawn, pendVars, estVars, applied>>
    \/ IntegratorReturn /\ UNCHANGED <<fsmVars, fsmObs, pendVars, estVars, applied>>
    \/ IntegratorSetControl /\ UNCHANGED <<fsmVars, fsmObs, pendVars, estVars, applied>>
    \/ IntegratorSetRemTime /\ UNCHANGED <<fsmVars, fsmObs, pendVars, estVars, applied>>
    \/ IntegratorCallback /\ UNCHANGED <<fsmVars, fsmObs, pendVars, estVars, applied>>
    \/ IntegratorDecrement /\ UNCHANGED <<fsmVars, fsmObs, pendVars, estVars, applied>>
    \/ PreviewDrawer_on_tick /\ UNCHANGED <<fsmVars, fsmObs, pendVars, estVars, applied>>

SpecDecoupled == InitDecoupled /\ [][NextDecoupled]_vars

\* ------------- the integrator's tick against update_preview and reset calls

\* Another thread calls update_preview(U, dT), with durations in buffer
\* units, or reset().
WriterCall ==
    /\ p_pc = "idle"
    /\ \/ \E tag \in CtrlTags, n \in 0..MaxSteps, d \in DurVals :
             p_call' = Some([method |-> "update_preview",
                             U |-> StackedControls(tag, n, u_dim),
                             dT |-> [k \in 1..n |-> d]])
       \/ p_call' = Some([method |-> "reset"])
    /\ p_pc' = "acquire"
    /\ UNCHANGED <<bufVars, obsVars, lock, p_step, c_pc, c_local>>

NextInterleaved ==
    \/ WriterCall /\ UNCHANGED <<fsmVars, fsmObs, mpcVars, drawn, pendVars, estVars, applied>>
    \/ ProducerAcquire /\ UNCHANGED <<fsmVars, fsmObs, mpcVars, drawn, pendVars, estVars, applied>>
    \/ ProducerWrite /\ UNCHANGED <<fsmVars, fsmObs, mpcVars, drawn, pendVars, estVars, applied>>
    \/ ProducerRelease /\ UNCHANGED <<fsmVars, fsmObs, mpcVars, drawn, pendVars, estVars, applied>>
    \/ IntegratorTick /\ UNCHANGED <<fsmVars, fsmObs, pendVars, estVars, applied>>
    \/ ConsumerAcquire /\ UNCHANGED <<fsmVars, fsmObs, mpcVars, drawn, pendVars, estVars, applied>>
    \/ ConsumerCheckEmpty /\ UNCHANGED <<fsmVars, fsmObs, mpcVars, drawn, pendVars, estVars, applied>>
    \/ ConsumerSlice /\ UNCHANGED <<fsmVars, fsmObs, mpcVars, drawn, pendVars, estVars, applied>>
    \/ ConsumerReadDT /\ UNCHANGED <<fsmVars, fsmObs, mpcVars, drawn, pendVars, estVars, applied>>
    \/ ConsumerIncrement /\ UNCHANGED <<fsmVars, fsmObs, mpcVars, drawn, pendVars, estVars, applied>>
    \/ IntegratorReturn /\ UNCHANGED <<fsmVars, fsmObs, pendVars, estVars, applied>>
    \/ IntegratorSetControl /\ UNCHANGED <<fsmVars, fsmObs, pendVars, estVars, applied>>
    \/ IntegratorSetRemTime /\ UNCHANGED <<fsmVars, fsmObs, pendVars, estVars, applied>>
    \/ IntegratorCallback /\ UNCHANGED <<fsmVars, fsmObs, pendVars, estVars, applied>>
    \/ IntegratorDecrement /\ UNCHANGED <<fsmVars, fsmObs, pendVars, estVars, applied>>

SpecInterleaved == InitThreads /\ [][NextInterleaved]_vars

\* ------------------------------------------- the estimator of a time series

InitEstimator ==
    /\ NoEstimator
    /\ NewBuffer(3)
    /\ dt \in {1}
    /\ NoFSM
    /\ NoMPC
    /\ NoThreads
    /\ NoPendulum

NextEstimator ==
    \/ EstimatorAdd
    \/ EstimatorReset

SpecEstimator == InitEstimator /\ [][NextEstimator]_vars

\* ------------------------------------------ the pendulum's stiffness set

\* InvertedPendulum.__init__ with any bounds, and nothing set yet
InitPendulum ==
    /\ ip_clamp \in BOOLEAN
    /\ ip_lambda \in Lambdas
    /\ ip_lambda_min \in {None} \cup {Some(l) : l \in Lambdas}
    /\ ip_lambda_max \in {None} \cup {Some(l) : l \in Lambdas}
    /\ ip_call = None
    /\ NoEstimator
    /\ NewBuffer(3)
    /\ dt \in {1}
    /\ NoFSM
    /\ NoMPC
    /\ NoThreads

CallSetLambda ==
    /\ \E lambda_ \in Lambdas, clamp \in {None, Some(TRUE), Some(FALSE)} :
          /\ set_lambda(lambda_, clamp)
          /\ ip_call' = Some([lambda_ |-> lambda_, clamp |-> clamp])
    /\ UNCHANGED <<bufVars, obsVars, fsmVars, fsmObs, mpcVars, concVars, estVars,
                   applied>>

SpecPendulum == InitPendulum /\ [][CallSetLambda]_vars

\* -------------------------------------------------------------- properties

\* C1: after update_preview(U, dT) with len(dT) = k and len(U) = k * u_dim,
\* issued in any buffer state, the i-th call of get_next_control (i = 1..k)
\* returns (U[(i-1)*d : i*d], dT[i-1]), and the (k+1)-th and every later call
\* return the default pair (zeros, 0.1), until the next update_preview.
C1_UpdateThenNext ==
    (arg_U # None /\ last_ret # None) =>
        LET U == arg_U[1]
            dT == arg_dT[1]
            k == Len(dT)
        IN last_ret[1] =
              IF served <= k
              THEN <<SubSeq(U, (served - 1) * u_dim + 1, served * u_dim), dT[served]>>
              ELSE <<Zeros(u_dim), default_dT * TimeScale>>

\* C1's case: an update issued on a partly consumed buffer, its two controls
\* served, and one more call made.
C1_Witness ==
    /\ arg_U # None
    /\ last_ret # None
    /\ prior = "partial"
    /\ Len(arg_dT[1]) = 2
    /\ served = 3

\* C2: after reset, in any prior state, the buffer is empty with cur_index 0
\* and get_next_control returns the default pair on every call until the next
\* update_preview.
C2_ResetThenNext ==
    since_reset =>
        /\ is_empty
        /\ cur_index = 0
        /\ last_ret # None => last_ret[1] = <<Zeros(u_dim), default_dT * TimeScale>>

\* C2's case: a reset of a partly consumed buffer followed by two calls.
C2_Witness ==
    /\ since_reset
    /\ prior = "partial"
    /\ last_ret # None
    /\ served = 2

\* The state on_tick may write.
fsmState == <<cur_stance_id, cur_stance, rem_time, is_over, swing_start, swing_mid,
              swing_end, swing_pose, ik_left, ik_right>>

\* C4: a tick that starts with rem_time > 0 does not change cur_stance_id nor
\* cur_stance; of the phase counter it only decreases rem_time by sim.dt, and
\* it leaves is_over, the swing foot's start, mid and end poses and the IK
\* foot tasks as they are (the pose of the swing foot's body moves along its
\* path in single support, and only there).
C4_NoAdvanceWhileTimeLeft ==
    [][rem_time > 0 =>
          /\ cur_stance_id' = cur_stance_id
          /\ cur_stance' = cur_stance
          /\ rem_time' = rem_time - dt
          /\ UNCHANGED <<is_over, swing_start, swing_mid, swing_end, ik_left,
                         ik_right>>
          /\ ~startswith_SS(CurStance) => UNCHANGED swing_pose]_vars

\* C4's case: a tick counted down in a stance the machine had moved to, and
\* used up the stance's time.
C4_Witness ==
    /\ branch = "count_down"
    /\ cur_stance_id > 0
    /\ rem_time <= 0

\* C5: with cycle = False, cur_stance_id never leaves nb_stances - 1; is_over,
\* once true, stays true, and a tick of a machine that is over changes nothing
\* of its state.
C5_TerminalIsFinal ==
    [][/\ (~cycle /\ cur_stance_id = nb_stances - 1) => cur_stance_id' = cur_stance_id
       /\ is_over => (is_over' /\ UNCHANGED fsmState)]_vars

\* C5's case: a machine of several stances that is over was ticked again.
C5_Witness ==
    /\ ~cycle
    /\ is_over
    /\ branch = "over"
    /\ nb_stances >= 3
    /\ cur_stance_id = nb_stances - 1

\* C6: 0 <= cur_stance_id < nb_stances, cur_stance is stances[cur_stance_id],
\* and the indices next_stance and next_next_stance read are in
\* [0, nb_stances), cyclic or not.
C6_IndicesValid ==
    /\ cur_stance_id \in 0..(nb_stances - 1)
    /\ cur_stance = cur_stance_id
    /\ next_stance_id \in 0..(nb_stances - 1)
    /\ next_next_stance_id \in 0..(nb_stances - 1)

\* C6's case: a cyclic machine wrapped around to its first stance.
C6_Witness ==
    /\ cycle
    /\ nb_stances >= 3
    /\ cur_stance_id = 0
    /\ branch = "advance"

\* C7: in a double-support stance with rem_time <= 0 whose guard
\* can_switch_to_ss() is false, on_tick changes nothing of the machine's state
\* and emits its diagnostic; the machine leaves a double-support stance only
\* in a tick in which the guard passed.
C7_HoldInDoubleSupport ==
    [][/\ (/\ ~is_over
           /\ rem_time <= 0
           /\ startswith_DS(CurStance)
           /\ can_switch' = Some(FALSE)) => (UNCHANGED fsmState /\ branch' = "hold")
       /\ (startswith_DS(CurStance) /\ cur_stance_id' # cur_stance_id)
              => can_switch' = Some(TRUE)]_vars

\* C7's case: the machine held in a double-support stance it had moved to.
C7_Witness ==
    /\ branch = "hold"
    /\ can_switch = Some(FALSE)
    /\ cur_stance_id > 0
    /\ rem_time < 0

\* C3: with a producer thread in update_preview or reset and a consumer thread
\* in get_next_control, in every interleaving a call of get_next_control
\* returns the default pair or a pair (u, dT) with u and dT of the same
\* update_preview and of the same step of it.
C3_ConsistentReads ==
    last_ret # None =>
        \/ last_ret[1] = <<Zeros(u_dim), default_dT * TimeScale>>
        \/ \E tag \in CtrlTags, n \in 1..MaxSteps :
              \E k \in 1..n :
                 last_ret[1] = <<Slice(StackedControls(tag, n, u_dim),
                                       u_dim * (k - 1), u_dim),
                                 StackedDurations(tag, n)[k]>>

\* C3's case: the consumer returned the second pair of a plan while the
\* producer was waiting for the lock with another plan.
C3_Witness ==
    /\ last_ret # None
    /\ c_pc = "release"
    /\ p_pc = "acquire"
    /\ p_call[1].method = "update_preview"
    /\ pb_U # None
    /\ cur_index = 2
    /\ p_call[1].U # pb_U[1]
    /\ last_ret[1] # <<Zeros(u_dim), default_dT * TimeScale>>

\* The controls of a stacked control vector of the controller.
ControlsOf(U) == {Slice(U, 3 * (k - 1), 3) : k \in 1..nb_mpc_steps}

\* C8: when solve() fails in compute_preview_control, the buffer is not
\* written (its controls, durations, cursor, rem_time, nb_steps and switch_step
\* are what they were before the controller's step) and no exception leaves
\* the controller's on_tick.
C8_SolveFailureKeepsBuffer ==
    [][(turn = "mpc" /\ mpc_outcome' = "qp_error") =>
          (UNCHANGED bufVars /\ ~raised' /\ turn' = "buffer")]_vars

\* C8's case: solve() failed in a tick in which the buffer held a plan that
\* was partly consumed.
C8_Witness ==
    /\ turn = "buffer"
    /\ mpc_outcome = "qp_error"
    /\ buffer_state = "partial"

\* C9: when a stage of the tube computation raises, the controller's on_tick
\* catches it, does not run compute_preview_control, leaves the buffer as it
\* is and returns, so that the simulation goes on to the next process.
C9_TubeFailureSkipsControl ==
    [][(turn = "mpc" /\ tube'[1].failed # "none") =>
          /\ mpc_outcome' = "tube_error"
          /\ UNCHANGED <<bufVars, preview_control>>
          /\ ~raised'
          /\ turn' = "buffer"]_vars

\* C9's case: the primal halfspace computation raised while the buffer held a
\* plan, and the buffer's on_tick of that tick has run.
C9_Witness ==
    /\ turn = "fsm"
    /\ mpc_outcome = "tube_error"
    /\ tube[1].failed = "primal_hrep"
    /\ pb_U # None
    /\ cb_control # None

\* A tick of the loop has run all its processes, and its controller failed.
AfterFailedTick == turn = "fsm" /\ mpc_outcome \in {"tube_error", "control_error", "qp_error"}

\* The controller has just installed a plan: the buffer holds nb_mpc_steps
\* controls with the timestep of this tick's problem, not yet read.
PlanInstalled ==
    /\ pb_U # None
    /\ Len(pb_U[1]) = 3 * nb_mpc_steps
    /\ pb_dT = Some([k \in 1..nb_mpc_steps |-> preview_control[1].timestep])
    /\ cur_index = 0
    /\ pb_rem_time = 0

\* C10, as stated: the loop never crashes, in a tick whose tube or QP fails the
\* control passed to the callback is a control of the last plan solved,
\* however many ticks have failed, and a tick whose computation succeeds
\* installs a plan.
C10_HoldsLastGoodControl ==
    /\ ~raised
    /\ (AfterFailedTick /\ arg_U # None) =>
          (cb_control # None /\ cb_control[1] \in ControlsOf(arg_U[1]))
    /\ (turn = "buffer" /\ mpc_outcome = "solved") => PlanInstalled

\* C10, amended: the loop never crashes; in a tick whose tube or QP fails the
\* control passed to the callback is a control of the last plan solved, or the
\* default zero control when that plan is exhausted or no plan was solved yet;
\* a tick whose computation succeeds installs a plan.
C10_HoldsPlanThenDefault ==
    /\ ~raised
    /\ AfterFailedTick =>
          /\ cb_control # None
          /\ \/ (arg_U # None /\ cb_control[1] \in ControlsOf(arg_U[1]))
             \/ /\ cb_control[1] = Zeros(3)
                /\ (arg_U = None \/ cur_index = nb_mpc_steps)
    /\ (turn = "buffer" /\ mpc_outcome = "solved") => PlanInstalled

\* C10's case: the ticks failed until the last plan was exhausted and the
\* callback got the default control.
C10_Witness ==
    /\ AfterFailedTick
    /\ arg_U # None
    /\ cur_index = nb_mpc_steps
    /\ cb_control = Some(Zeros(3))

\* The controller's on_tick has just returned: the state machine is as the
\* controller read it.
AfterController == turn = "fsm" /\ preview_targets # None

\* compute_preview_control was called in the tick that has just ended.
AfterControl == AfterController /\ control_call # None /\ tube # None

\* floor(x / y) for y # 0
floor_div(x, y) == IF y > 0 THEN x \div y ELSE (-x) \div (-y)

\* C11: in compute_preview_control, when the tube has two sub-phases, the
\* switch step is computed and 0 <= switch_step < nb_mpc_steps; when it has
\* one, the assignment completes and every step is given dual_hrep[0].
C11_SwitchStepInRange ==
    AfterControl =>
        IF Len(tube[1].primal_vrep) = 2
        THEN /\ control_call[1].switch_step # None
             /\ control_call[1].switch_step[1] \in 0..(nb_mpc_steps - 1)
        ELSE /\ control_call[1].error = "none"
             /\ preview_control # None
             /\ preview_control[1].D = [k \in 1..nb_mpc_steps |-> 0]

\* C12: for every state of the machine from which the controller is called,
\* the assignment of (D, e) completes without an exception, step k is given
\* dual_hrep[0] when k <= switch_step and dual_hrep[1] otherwise, with
\* switch_step = floor(switch_time / dT) and switch_time the machine's
\* rem_time, and every step is given dual_hrep[0] when the tube has one
\* sub-phase.
C12_ConstraintsPerStep ==
    AfterControl =>
        /\ control_call[1].error = "none"
        /\ preview_control # None
        /\ LET sw == floor_div(2 * rem_time * nb_mpc_steps, preview_targets[1].horizon2)
           IN /\ preview_targets[1].switch_time = rem_time
              /\ preview_control[1].switch_step = sw
              /\ preview_control[1].D =
                     [k \in 1..nb_mpc_steps |->
                         IF Len(tube[1].primal_vrep) = 1 \/ k - 1 <= sw THEN 0 ELSE 1]

\* C13, as stated: when the tube's start COM and target COM coincide,
\* primal_vrep is one sub-phase, the eight vertices of the full volume.
C13_CoincidingComsCollapse ==
    (tube # None /\ tube[1].start_com = tube[1].target_com) =>
        /\ Len(tube[1].primal_vrep) = 1
        /\ nb_vertices(tube[1].primal_vrep[1]) = 8

\* C13, amended: when the start stance is a single support whose reference COM
\* coincides with the target COM, primal_vrep is one sub-phase, the eight
\* vertices of the full volume; a start stance in double support gives the
\* full volume followed by the target alone, whatever the COMs are, and a
\* single support with another target the start COM alone followed by the
\* full volume.
C13_SingleSupportAtReferenceCollapses ==
    tube # None =>
        LET start_stance == StanceAt(tube[1].start_stance)
            full == <<"vertices", tube[1].start_com, tube[1].target_com>>
        IN /\ nb_vertices(full) = 8
           /\ tube[1].primal_vrep =
                 IF startswith_DS(start_stance)
                 THEN <<full, <<"vertex", tube[1].target_com>> >>
                 ELSE IF start_stance.com = tube[1].target_com
                 THEN <<full>>
                 ELSE << <<"vertex", tube[1].start_com>>, full>>

\* C13's case: a tube from a single support at its reference target, the COM
\* being elsewhere.
C13_Witness ==
    /\ tube # None
    /\ startswith_SS(StanceAt(tube[1].start_stance))
    /\ StanceAt(tube[1].start_stance).com = tube[1].target_com
    /\ tube[1].start_com # tube[1].target_com
    /\ Len(tube[1].primal_vrep) = 1

\* C14: in a tube with two sub-phases, in either order, the cone of the
\* sub-phase that is one COM position is the intersection of the reduced cones
\* of the start stance and of the next stance, the cone of the other sub-phase
\* is one reduced cone over the full volume, and the cone at each position of
\* dual_vrep is computed for the COM vertices at that position of primal_vrep.
C14_DualConesIntersect ==
    (tube # None /\ Len(tube[1].primal_vrep) = 2 /\ tube[1].dual_vrep # <<>>) =>
        LET t == tube[1]
            full == <<"vertices", t.start_com, t.target_com>>
            ss == IF t.primal_vrep[1][1] = "vertex" THEN 1 ELSE 2
            ds == 3 - ss
            ss_stance == IF ss = 1 THEN t.start_stance ELSE t.next_stance
            ds_stance == IF ss = 1 THEN t.next_stance ELSE t.start_stance
        IN /\ Len(t.dual_vrep) = 2
           /\ t.primal_vrep[ds] = full
           /\ t.dual_vrep[ss].hull = {<<ss_stance, t.primal_vrep[ss]>>, <<ds_stance, full>>}
           /\ Cardinality(t.dual_vrep[ss].hull) = 2
           /\ {c[1] : c \in t.dual_vrep[ss].hull} = {t.start_stance, t.next_stance}
           /\ t.dual_vrep[ds].hull = {<<ds_stance, full>>}

\* C14's case: a tube that starts in single support and ends in the double
\* support of the next stance.
C14_Witness ==
    /\ tube # None
    /\ Len(tube[1].primal_vrep) = 2
    /\ tube[1].primal_vrep[1][1] = "vertex"
    /\ Len(tube[1].dual_vrep) = 2
    /\ tube[1].start_stance # tube[1].next_stance

\* The positions of the next stance and of the one after it: wrapped around in
\* cyclic mode, clamped to the last stance otherwise.
AheadBy(k) ==
    IF cycle THEN (cur_stance_id + k) % nb_stances
    ELSE Min(cur_stance_id + k, nb_stances - 1)

\* C15: in single support with rem_time < 0.5 * duration, get_preview_targets
\* returns target_com = next_stance.com.p and horizon = rem_time +
\* next_stance.duration + 0.5 * next_next_stance.duration, next and next-next
\* wrapped in cyclic mode and clamped to the last stance otherwise.
C15_LateSingleSupportTargets ==
    (AfterController /\ startswith_SS(CurStance) /\ 2 * rem_time < CurStance.duration) =>
        /\ preview_targets[1].target_com = StanceAt(AheadBy(1)).com
        /\ target_com = Some(StanceAt(AheadBy(1)).com)
        /\ preview_targets[1].horizon2 =
               2 * rem_time + 2 * StanceAt(AheadBy(1)).duration
                 + StanceAt(AheadBy(2)).duration

\* C15's case: the last single support of a sequence that is not cyclic, in
\* its second half.
C15_Witness ==
    /\ AfterController
    /\ ~cycle
    /\ nb_stances = 4
    /\ cur_stance_id = 3
    /\ startswith_SS(CurStance)
    /\ 2 * rem_time < CurStance.duration
    /\ rem_time > 0

\* C16: in single support with rem_time < 0.5 * duration, the target velocity
\* is (target_com - current_com) / horizon, current_com the current position
\* of the COM and target_com the COM of the next stance.
C16_VelocityFromCurrentCom ==
    (AfterController /\ startswith_SS(CurStance) /\ 2 * rem_time < CurStance.duration) =>
        preview_targets[1].target_comd =
            <<"diff", StanceAt(AheadBy(1)).com, com, preview_targets[1].horizon2>>

\* C17: in double support, whatever rem_time is, get_preview_targets returns
\* target_com = cur_stance.com.p, horizon = rem_time + 0.5 *
\* next_stance.duration and the velocity 0.4 * t of the stance foot: the left
\* foot when the label ends in L, the right foot otherwise.
C17_DoubleSupportTargets ==
    (AfterController /\ startswith_DS(CurStance)) =>
        /\ preview_targets[1].target_com = CurStance.com
        /\ preview_targets[1].horizon2 = 2 * rem_time + StanceAt(AheadBy(1)).duration
        /\ preview_targets[1].target_comd =
               <<"0.4 t", IF CurStance.label[2] = "L" THEN CurStance.left_foot
                          ELSE CurStance.right_foot>>
        /\ preview_targets[1].target_comd[2] # None

\* C17's case: the machine holds in the double support DS-R, its time used up.
C17_Witness ==
    /\ AfterController
    /\ branch = "hold"
    /\ CurStance.label = <<"DS", "R">>
    /\ rem_time < 0
    /\ cur_stance_id > 0

\* C18: in single support with rem_time >= 0.5 * duration, get_preview_targets
\* returns the target and the velocity of the double-support rule and horizon =
\* rem_time; in every branch the first value returned is rem_time.
C18_EarlySingleSupportTargets ==
    AfterController =>
        /\ preview_targets[1].switch_time = rem_time
        /\ (startswith_SS(CurStance) /\ 2 * rem_time >= CurStance.duration) =>
              /\ preview_targets[1].target_com = CurStance.com
              /\ preview_targets[1].horizon2 = 2 * rem_time
              /\ preview_targets[1].target_comd =
                     <<"0.4 t", IF CurStance.label[2] = "L" THEN CurStance.left_foot
                                ELSE CurStance.right_foot>>

\* C18's case: a single support at exactly half of its duration.
C18_Witness ==
    /\ AfterController
    /\ startswith_SS(CurStance)
    /\ 2 * rem_time = CurStance.duration

C20_SwingFootResetOnHandover ==
    [][LET cur == StanceAt(cur_stance_id)
           nn == StanceAt(AheadBy(2))
       IN IF branch' = "advance" /\ cur.label = <<"DS", "R">> /\ nn.label = <<"DS", "L">>
          THEN /\ swing_start' = Some(cur.left_foot[1])
               /\ swing_end' = Some(nn.left_foot[1])
          ELSE IF branch' = "advance" /\ cur.label = <<"DS", "L">>
                  /\ nn.label = <<"DS", "R">>
          THEN /\ swing_start' = Some(cur.right_foot[1])
               /\ swing_end' = Some(nn.right_foot[1])
          ELSE UNCHANGED <<swing_start, swing_mid, swing_end>>]_vars

\* C20's case: the machine left DS-L for SS-L, the right foot free to swing to
\* its contact of the DS-R two stances ahead.
C20_Witness ==
    /\ branch = "advance"
    /\ cur_stance_id = 3
    /\ CurStance.label = <<"SS", "L">>
    /\ swing_start = Some(<<"right", 0>>)
    /\ swing_end = Some(<<"right", 1>>)

\* The task of a foot is the one update_robot_ik gives it for this contact of
\* a stance: a contact task onto the contact, or, the stance having no such
\* contact, a pose task that tracks the swing foot.
foot_task_matches(task, foot) ==
    IF foot # None
    THEN task.kind = "ContactTask" /\ task.target = foot[1]
    ELSE task.kind = "PoseTask" /\ task.target = "swing_foot"

\* C21: after every tick that advances the stance, the task of each foot is a
\* contact task onto the current stance's contact of that foot when the stance
\* has one, else a pose task tracking the swing foot; a tick that does not
\* advance leaves the tasks of both feet as they were.
C21_FootTasksFollowStance ==
    [][IF branch' = "advance"
       THEN /\ foot_task_matches(ik_left', StanceAt(cur_stance').left_foot)
            /\ foot_task_matches(ik_right', StanceAt(cur_stance').right_foot)
       ELSE UNCHANGED <<ik_left, ik_right>>]_vars

\* C21's case: the stance has just advanced to a single support, the left
\* foot swings and the right foot is in contact.
C21_Witness ==
    /\ branch = "advance"
    /\ startswith_SS(CurStance)
    /\ CurStance.left_foot = None
    /\ ik_left = [kind |-> "PoseTask", target |-> "swing_foot", weight |-> "swing"]
    /\ ik_right.kind = "ContactTask"
    /\ ik_right.target = CurStance.right_foot[1]

\* C23: a tick that advances sets cur_stance_id to (cur_stance_id + 1) modulo
\* the number of stances and cur_stance to the stance at that index, sets
\* rem_time to the whole duration of that stance, and leaves the tasks that
\* update_robot_ik computes from the stance moved to.
C23_AdvanceStep ==
    [][branch' = "advance" =>
          /\ cur_stance_id' = (cur_stance_id + 1) % nb_stances
          /\ cur_stance' = cur_stance_id'
          /\ rem_time' = stances[cur_stance_id' + 1].duration
          /\ (ik_left'.kind = "ContactTask") =
                 (stances[cur_stance_id' + 1].left_foot # None)
          /\ (ik_right'.kind = "ContactTask") =
                 (stances[cur_stance_id' + 1].right_foot # None)]_vars

\* C23's case: a cycle of four stances has just wrapped around from the last
\* stance to the first, whose whole duration is left.
C23_Witness ==
    /\ branch = "advance"
    /\ cycle
    /\ nb_stances = 4
    /\ cur_stance_id = 0
    /\ swing_end # None
    /\ rem_time = CurStance.duration

\* Two poses of the swing foot body are the same: the same point of the same
\* path from a start pose to an end pose.
same_pose(p, q) ==
    IF p = None \/ q = None THEN p = q
    ELSE /\ p[1][1] = q[1][1]
         /\ p[1][2] = q[1][2]
         /\ p[1][3] * q[1][4] = q[1][3] * p[1][4]

\* C24: a tick that starts with time left takes dt from rem_time and, in a
\* single support, moves the swing foot to progress 1 - rem_time / duration
\* with rem_time the value after the tick took dt from it (nothing for a
\* progress of 1 or more); in a double support it leaves the swing foot's pose.
C24_ProgressAfterDecrement ==
    [][branch' = "count_down" =>
          /\ rem_time' = rem_time - dt
          /\ IF startswith_SS(CurStance)
             THEN same_pose(swing_pose',
                            IF rem_time' <= 0 THEN swing_pose
                            ELSE Some(<<swing_start[1], swing_end[1],
                                        CurStance.duration - rem_time',
                                        CurStance.duration>>))
             ELSE UNCHANGED swing_pose]_vars

\* C22: once a machine that does not cycle is over, each tick of the
\* controller has the COM reference of the last stance as target_com and, the
\* tube and the QP being feasible, writes a plan to the buffer.
C22_TerminalKeepsPlanning ==
    (AfterController /\ is_over /\ ~cycle) =>
        /\ preview_targets[1].target_com = StanceAt(nb_stances - 1).com
        /\ target_com = Some(StanceAt(nb_stances - 1).com)
        /\ mpc_outcome = "solved"

\* C25: primal_vrep is one sub-phase, the full volume, for a start stance in
\* single support whose reference COM is the target COM; the start COM alone
\* followed by the full volume for a single support with another target; the
\* full volume followed by the target COM alone for a double support.  The
\* full volume has eight vertices: the four corners of the cross-section about
\* start_com - margin * n, then the four about target_com + margin * n.
C25_PrimalSubphases ==
    tube # None =>
        LET t == tube[1]
            start_stance == StanceAt(t.start_stance)
            full == <<"vertices", t.start_com, t.target_com>>
            corners == {<<dx, dy>> : dx \in {-1, 1}, dy \in {-1, 1}}
        IN /\ startswith_SS(start_stance) /\ start_stance.com = t.target_com
                  => t.primal_vrep = <<full>>
           /\ startswith_SS(start_stance) /\ start_stance.com # t.target_com
                  => t.primal_vrep = << <<"vertex", t.start_com>>, full>>
           /\ startswith_DS(start_stance)
                  => t.primal_vrep = <<full, <<"vertex", t.target_com>> >>
           /\ Len(t.vertices) = 8
           /\ Cardinality({t.vertices[i] : i \in 1..8}) = 8
           /\ {t.vertices[i] : i \in 1..4} = {<< <<t.start_com, -1>>, c>> : c \in corners}
           /\ {t.vertices[i] : i \in 5..8} = {<< <<t.target_com, 1>>, c>> : c \in corners}
           /\ \A i \in 1..Len(t.primal_vrep) :
                  nb_vertices(t.primal_vrep[i]) = IF t.primal_vrep[i] = full THEN 8 ELSE 1

\* C25's case: a tube from a single support towards the next stance's target,
\* the COM being away from both: the start COM alone, then the full volume.
C25_Witness ==
    /\ tube # None
    /\ startswith_SS(StanceAt(tube[1].start_stance))
    /\ StanceAt(tube[1].start_stance).com # tube[1].target_com
    /\ tube[1].start_com = free_com
    /\ tube[1].primal_vrep[1] = <<"vertex", free_com>>
    /\ tube[1].vertices[1][1] = <<free_com, -1>>

\* C26, as stated: in a tube with two sub-phases both cones are expanded from
\* reduced cones, the one of the single COM position after the intersection
\* was taken, and every vertex of an expanded cone has vertical acceleration
\* 0 or g.
C26_VerticalExtremesZeroAndG ==
    (tube # None /\ Len(tube[1].dual_vrep) = 2) =>
        \A i \in 1..2 :
            /\ tube[1].dual_vrep[i].reduced
            /\ Cardinality(tube[1].dual_vrep[i].hull) =
                   (IF tube[1].primal_vrep[i][1] = "vertex" THEN 2 ELSE 1)
            /\ tube[1].dual_vrep[i].vertical \subseteq {0, 1}

\* C26, amended: in a tube with two sub-phases both cones are expanded from
\* reduced cones, the one of the single COM position after the intersection
\* was taken, and the vertices of an expanded cone are the gravity vector, of
\* vertical acceleration -g, and vertices of vertical acceleration +g.
C26_VerticalExtremesGravityAndG ==
    (tube # None /\ Len(tube[1].dual_vrep) = 2) =>
        \A i \in 1..2 :
            /\ tube[1].dual_vrep[i].reduced
            /\ Cardinality(tube[1].dual_vrep[i].hull) =
                   (IF tube[1].primal_vrep[i][1] = "vertex" THEN 2 ELSE 1)
            /\ tube[1].dual_vrep[i].vertical = {-1, 1}

\* C26's case: a tube that starts in double support, its second cone expanded
\* from the intersection of the reduced cones of two different stances.
C26_Witness ==
    /\ tube # None
    /\ Len(tube[1].dual_vrep) = 2
    /\ tube[1].primal_vrep[2][1] = "vertex"
    /\ tube[1].start_stance # tube[1].next_stance
    /\ -1 \in tube[1].dual_vrep[2].vertical
    /\ Cardinality(tube[1].dual_vrep[2].hull) = 2

\* C27: at the end of a tick in which the controller's solve succeeded, the
\* buffer's on_tick has fetched, and the control it passed to the callback is
\* the first control of the plan written in that tick, held for that
\* control's duration less the tick; the cursor is past that control alone.
C27_FirstControlOfNewPlan ==
    (turn = "fsm" /\ mpc_outcome = "solved") =>
        /\ fetched
        /\ arg_U = pb_U
        /\ cb_control = Some(SubSeq(arg_U[1], 1, 3))
        /\ cur_control = cb_control
        /\ cur_index = 1
        /\ pb_rem_time = arg_dT[1][1] - dt * TimeScale

\* C27's case: a second plan replaced the plan of an earlier tick, and its
\* first control went to the callback in the same tick, to be held for longer
\* than a tick.
C27_Witness ==
    /\ turn = "fsm"
    /\ mpc_outcome = "solved"
    /\ fetched
    /\ pb_U = Some(StackedControls(2, nb_mpc_steps, 3))
    /\ cb_control = Some(SubSeq(StackedControls(2, nb_mpc_steps, 3), 1, 3))
    /\ cb_control # Some(SubSeq(StackedControls(2, nb_mpc_steps, 3), 4, 6))
    /\ pb_rem_time >= dt * TimeScale

\* C28: update_preview having returned, the first control that the
\* integrator's on_tick adopts as cur_control afterwards, if it is a control
\* of a plan at all, is the first control of the sequence that update_preview
\* installed, and the rem_time on_tick sets with it is that control's
\* duration (until the next update_preview sets it to 0).
C28_NoStaleControlAfterUpdate ==
    (arg_U # None /\ served = 1 /\ cur_control # Some(Zeros(3))) =>
        /\ cur_control = Some(SubSeq(arg_U[1], 1, 3))
        /\ (c_pc = "callback" /\ fetched) => pb_rem_time \in {arg_dT[1][1], 0}

\* C29: when PreviewDrawer.on_tick reads from the buffer the _U and the _dT of
\* a plan, the nb_steps and the switch_step it reads are those of that plan:
\* switch_step is neither None nor the switch step of another plan.
C29_DrawerSeesOnePlan ==
    drawn # None =>
        \A tag \in CtrlTags :
            (drawn[1].U = Some(plan_of(tag).U) /\ drawn[1].dT = Some(plan_of(tag).dT)) =>
                /\ drawn[1].nb_steps = nb_mpc_steps
                /\ drawn[1].switch_step = Some(plan_of(tag).switch_step)

\* C30: after set_lambda, when clamping is in effect (the argument clamp if it
\* is not None, else self.clamp) and lambda_min <= lambda_max, lambda_ is at
\* least lambda_min if that is not None and at most lambda_max if that is not
\* None; when clamping is off lambda_ is the value given.
C30_SetLambdaClamps ==
    ip_call # None =>
        LET given == ip_call[1].lambda_
            in_effect == IF ip_call[1].clamp = None THEN ip_clamp
                         ELSE ip_call[1].clamp[1]
            ordered == (ip_lambda_min # None /\ ip_lambda_max # None)
                           => ip_lambda_min[1] <= ip_lambda_max[1]
        IN /\ (in_effect /\ ordered) =>
                  /\ ip_lambda_min # None => ip_lambda >= ip_lambda_min[1]
                  /\ ip_lambda_max # None => ip_lambda <= ip_lambda_max[1]
           /\ ~in_effect => ip_lambda = given

\* C30's case: the argument clamp = True overrode self.clamp = False and a
\* stiffness above lambda_max was stored as lambda_max.
C30_Witness ==
    /\ ip_call # None
    /\ ip_call[1].clamp = Some(TRUE)
    /\ ~ip_clamp
    /\ ip_lambda_max # None
    /\ ip_lambda_min # None
    /\ ip_lambda_min[1] < ip_lambda_max[1]
    /\ ip_call[1].lambda_ > ip_lambda_max[1]
    /\ ip_lambda = ip_lambda_max[1]

\* C31: when every stance has a positive duration of which sim.dt is less
\* than half, the horizon that get_preview_targets returns is positive in
\* every state of the machine.
C31_HorizonPositive ==
    (\A i \in 1..Len(stances) :
         stances[i].duration > 0 /\ 2 * dt < stances[i].duration)
        => get_preview_targets.horizon2 > 0

\* C31's case: the machine holds in a double support whose time ran out below
\* zero, the horizon being what is left of half the next stance's duration.
C31_Witness ==
    /\ \A i \in 1..Len(stances) : 2 * dt < stances[i].duration
    /\ branch = "hold"
    /\ startswith_DS(CurStance)
    /\ rem_time < 0
    /\ get_preview_targets.horizon2 = 2 * rem_time + next_stance.duration
    /\ get_preview_targets.horizon2 > 0

\* C32: every progress value on_tick passes to SwingFoot.update_pose, which is
\* (duration - rem_time) / duration, lies in [0, 1), and the values passed
\* within one single-support phase do not decrease; the swing foot is never
\* placed at progress 1, its end pose; and -dt < rem_time <= duration of the
\* current stance in every state.
C32_ProgressRange ==
    /\ [](/\ -dt < rem_time
          /\ rem_time <= CurStance.duration
          /\ swing_pose # None =>
                 0 <= swing_pose[1][3] /\ swing_pose[1][3] < swing_pose[1][4])
    /\ [][(branch' = "count_down" /\ startswith_SS(CurStance)) =>
              /\ 0 <= CurStance.duration - rem_time
              /\ CurStance.duration - rem_time < CurStance.duration
              /\ swing_pose' = Some(<<swing_start[1], swing_end[1],
                                      CurStance.duration - rem_time,
                                      CurStance.duration>>)
              /\ branch = "count_down" =>
                     /\ swing_pose[1][4] = swing_pose'[1][4]
                     /\ swing_pose[1][3] <= swing_pose'[1][3]
              /\ rem_time' < rem_time]_vars

\* C32's case: a single support some ticks in, the swing foot past its start
\* and short of its end, with the time of the stance run out below zero.
C32_Witness ==
    /\ startswith_SS(CurStance)
    /\ branch = "count_down"
    /\ swing_pose # None
    /\ 0 < swing_pose[1][3]
    /\ swing_pose[1][3] < swing_pose[1][4]
    /\ rem_time < 0

\* C33: in a single-support stance reached by a transition, the swing foot's
\* start pose is the pose that the foot free in this stance had in the
\* preceding double-support stance, and its end pose is a pose of that foot.
C33_SwingDescribesFreeFoot ==
    (startswith_SS(CurStance) /\ cur_stance_id > 0
        /\ startswith_DS(StanceAt(cur_stance_id - 1))) =>
        LET prev == StanceAt(cur_stance_id - 1)
            free == IF CurStance.left_foot = None THEN "left" ELSE "right"
            lifted == IF free = "left" THEN prev.left_foot ELSE prev.right_foot
        IN /\ swing_start = Some(pose_of(lifted))
           /\ swing_end # None
           /\ swing_end[1][1] = free

\* C34: after any sequence of update_preview, reset, get_next_control and
\* ticks, cur_index is 0 in an empty buffer and between 0 and len(_dT) in a
\* non-empty one; and a call of get_next_control that returns the default
\* pair changes no field of the buffer.
C34_CursorInRange ==
    /\ [](/\ is_empty => cur_index = 0
          /\ ~is_empty => 0 <= cur_index /\ cur_index <= Len(pb_dT[1]))
    /\ [][(CallGetNextControl /\ last_ret' = Some(default_control))
              => UNCHANGED bufVars]_vars

\* C34's case: a plan served to its end, and one more call of get_next_control
\* answered with the default pair, the cursor at len(_dT).
C34_Witness ==
    /\ ~is_empty
    /\ Len(pb_dT[1]) = MaxSteps
    /\ cur_index = Len(pb_dT[1])
    /\ served > cur_index
    /\ last_ret = Some(default_control)

\* C35: with no update_preview or reset since it was fetched, a control of
\* duration d has been applied in exactly max(1, floor(d/dt)) ticks when
\* on_tick fetches the next one, and the time that remains of a control
\* applied in k ticks is its own duration less k ticks: what was left of the
\* control before it is not carried over.
C35_TicksPerControl ==
    applied # None =>
        /\ applied[1].prev # None =>
               applied[1].prev[1].ticks =
                   IF applied[1].prev[1].dT < dt * TimeScale THEN 1
                   ELSE applied[1].prev[1].dT \div (dt * TimeScale)
        /\ applied[1].ticks <=
               IF applied[1].dT < dt * TimeScale THEN 1
               ELSE applied[1].dT \div (dt * TimeScale)
        /\ pb_rem_time = applied[1].dT - applied[1].ticks * dt * TimeScale

\* C35's case: a control of a tick and a quarter, applied in one tick and
\* replaced by the next control with a quarter tick of its duration left.
C35_Witness ==
    /\ applied # None
    /\ applied[1].prev = Some([dT |-> 5, ticks |-> 1])
    /\ dt * TimeScale = 4
    /\ applied[1].ticks = 1
    /\ pb_rem_time = applied[1].dT - dt * TimeScale

\* C36: whenever on_tick calls the callback, also with a reset or an
\* update_preview of another thread interleaved with the tick, the control
\* it passes is not None and has dimension u_dim.
C36_CallbackGetsControl ==
    c_pc = "decrement" => cb_control # None /\ Len(cb_control[1]) = u_dim

\* C37: when the double-support guard passed whenever it was evaluated, the
\* machine has spent exactly ceil(duration / dt) decrementing ticks in the
\* stance it leaves, the tick that moves on being one more, and that tick
\* subtracts nothing from the new stance's time.
C37_TicksPerStance ==
    (branch = "advance" /\ ~dwell.held) =>
        LET left == StanceAt((cur_stance_id + nb_stances - 1) % nb_stances)
        IN /\ dwell.down = (left.duration + dt - 1) \div dt
           /\ dwell.down * dt >= left.duration
           /\ (dwell.down - 1) * dt < left.duration
           /\ rem_time = CurStance.duration

\* C37's case: a stance of two ticks and a half was left after three
\* decrementing ticks, the guard never having failed.
C37_Witness ==
    /\ branch = "advance"
    /\ ~dwell.held
    /\ cur_stance_id > 1
    /\ dt = 2
    /\ StanceAt(cur_stance_id - 1).duration = 5
    /\ dwell.down = 3
    /\ rem_time = CurStance.duration

\* C38: if the guard passes eventually whenever the machine holds, a cyclic
\* machine is in each of its stances again and again, and a non-cyclic
\* machine eventually sets is_over, whatever the kind of its last stance.
C38_Progress ==
    /\ \A i \in 0..(MaxStances - 1) :
           []<>((cycle /\ i < nb_stances) => cur_stance_id = i)
    /\ <>(~cycle => is_over)

\* C38's case: a machine whose last stance is a double support held there,
\* and ended in the tick in which the guard passed.
C38_Witness ==
    /\ ~cycle
    /\ is_over
    /\ branch = "terminal"
    /\ startswith_DS(CurStance)
    /\ nb_stances >= 3
    /\ dwell.held
    /\ can_switch = Some(TRUE)

\* The sum of the values of a sequence, and its least and greatest value.
RECURSIVE SumOf(_)
SumOf(s) == IF s = <<>> THEN 0 ELSE s[1] + SumOf(Tail(s))

LeastOf(s) == CHOOSE v \in {s[i] : i \in 1..Len(s)} :
                  \A i \in 1..Len(s) : v <= s[i]

GreatestOf(s) == CHOOSE v \in {s[i] : i \in 1..Len(s)} :
                     \A i \in 1..Len(s) : v >= s[i]

\* C39: after a reset and any sequence of adds, n is the number of values
\* added and x their sum; when there are any, x_min and x_max are the least
\* and the greatest of them, x_min <= last_value <= x_max with last_value the
\* last one added, and n * x_min <= x <= n * x_max; after a reset alone n = 0
\* and avg and std are None; with exactly one value std is 0.
C39_EstimatorInvariants ==
    /\ est_n = Len(est_added)
    /\ est_x = SumOf(est_added)
    /\ est_added # <<>> =>
           /\ est_last_value = Some(est_added[Len(est_added)])
           /\ est_x_min = Some(LeastOf(est_added))
           /\ est_x_max = Some(GreatestOf(est_added))
           /\ est_x_min[1] <= est_last_value[1]
           /\ est_last_value[1] <= est_x_max[1]
           /\ est_n * est_x_min[1] <= est_x
           /\ est_x <= est_n * est_x_max[1]
           /\ avg # None
           /\ std # None
    /\ est_added = <<>> => (est_n = 0 /\ avg = None /\ std = None)
    /\ Len(est_added) = 1 => std = Some([num |-> 0, den |-> 1])

\* C39's case: three values added, the last of them strictly between the
\* least and the greatest.
C39_Witness ==
    /\ Len(est_added) = 3
    /\ est_n = 3
    /\ est_x_min[1] < est_last_value[1]
    /\ est_last_value[1] < est_x_max[1]
    /\ est_x = SumOf(est_added)

====
